---- MODULE Spec2Model ----
(***************************************************************************)
(* The client-side work-distribution engine of IsaProMe: the queue of      *)
(* file ids, the pool of API keys (busy set, cooldown map, rotation        *)
(* pointer), the worker loops and the completion detector of               *)
(* src/unnamed/part_002 (the cooldown / round-robin generation of App),    *)
(* together with the user operations that reach the same state (upload,    *)
(* delete, clear-all, retry, key list replacement).                        *)
(*                                                                         *)
(* JavaScript runs one task at a time, so every handler below is one       *)
(* atomic action: it runs from its entry to its first suspension point     *)
(* (the await of the generation call, a setTimeout, or its return).        *)
(*                                                                         *)
(* Time.  Date.now() is the origin of the time axis in every state         *)
(* (Now == 0): every stored absolute time t (a cooldown expiry, a timer's  *)
(* due time) is kept as t - Date.now().  Tick(d) lets d milliseconds pass  *)
(* by moving every stored time d towards the past.                         *)
(***************************************************************************)
EXTENDS Integers, Sequences, FiniteSets, Bags, TLC

(* ---- bounds of the model ---- *)
MaxFiles == 2
MaxKeys == 2
MaxStale == 0
MaxPolls == 1
MaxFailures == 1
MaxCount == 12

(* ---- program constants ---- *)
COOLDOWN_MS == 30000
THROTTLE_MS == 1000
GRACE_MS == 1000
MAX_WORKERS == 20
MIN_WORKERS == 2

Now == 0
Past == Now - 1

FileIds == 1..MaxFiles

Pending == "pending"
Processing == "processing"
Completed == "completed"
Failed == "failed"
ProcessingStatus == {Pending, Processing, Completed, Failed}

NoError == ""
NoLimit == 0 - 1

(* ---- String(error).toLowerCase() and the key-error test ---- *)

\* messages with which the generation call can reject
TimeoutMessage == "Request timed out (60s limit)"
QuotaMessage == "429 Too Many Requests"
FormatMessage == "Unsupported format"
Messages == {QuotaMessage, TimeoutMessage, FormatMessage}
NotFoundMessage == "File not found in state"

\* String(error) of an Error object
ErrorString(msg) == "Error: " \o msg

Lower1(c) ==
  CASE c = "A" -> "a" [] c = "B" -> "b" [] c = "C" -> "c" [] c = "D" -> "d"
    [] c = "E" -> "e" [] c = "F" -> "f" [] c = "G" -> "g" [] c = "H" -> "h"
    [] c = "I" -> "i" [] c = "J" -> "j" [] c = "K" -> "k" [] c = "L" -> "l"
    [] c = "M" -> "m" [] c = "N" -> "n" [] c = "O" -> "o" [] c = "P" -> "p"
    [] c = "Q" -> "q" [] c = "R" -> "r" [] c = "S" -> "s" [] c = "T" -> "t"
    [] c = "U" -> "u" [] c = "V" -> "v" [] c = "W" -> "w" [] c = "X" -> "x"
    [] c = "Y" -> "y" [] c = "Z" -> "z" [] OTHER -> c

\* the characters of s from the i-th on, in lower case
RECURSIVE LowerFrom(_, _)
LowerFrom(s, i) ==
  IF i > Len(s) THEN ""
  ELSE Lower1(SubSeq(s, i, i)) \o LowerFrom(s, i + 1)

ToLowerCase(s) == LowerFrom(s, 1)

Includes(s, needle) ==
  \E i \in 1..(Len(s) - Len(needle) + 1) : SubSeq(s, i, i + Len(needle) - 1) = needle

KeyErrorNeedles == {"429", "403", "quota", "timeout", "fetch failed", "overloaded"}

IsKeyErrorText(errorMsg) == \E n \in KeyErrorNeedles : Includes(errorMsg, n)

\* isKeyError of the catch block computed for a rejection whose Error message
\* is msg: the needles are looked for in String(error).toLowerCase()
IsKeyErrorOf(msg) ==
  \E errorMsg \in {ToLowerCase(ErrorString(msg))} : IsKeyErrorText(errorMsg)

\* that classification, computed once for every message a rejection can carry
KeyErrorTable == [m \in Messages \cup {NotFoundMessage} |-> IsKeyErrorOf(m)]

\* isKeyError of the catch block, for a rejection whose Error message is msg
IsKeyError(msg) == KeyErrorTable[msg]


(* ---- state ---- *)

VARIABLES
  files,             \* useState<FileItem[]>: the items in display order
  apiKeys,           \* useState<string[]>: the configured credentials
  isProcessing,      \* useState(false): what the UI is locked on
  processingRef,     \* useRef(false): the run flag the workers read
  activeWorkersRef,  \* useRef(0): the in-flight counter
  queueRef,          \* useRef<string[]>: the work queue of file ids
  activeKeysRef,     \* useRef<Set<string>>: the busy keys
  cooldownKeysRef,   \* useRef<Map<string, number>>: key -> expiry time
  nextKeyIdxRef,     \* useRef(0): the rotation pointer
  timers,            \* the pending setTimeout callbacks, in firing order
  calls,             \* the worker loops suspended in a generation call (a bag)
  lastLog,           \* the entry addLog appended last
  nextId,            \* the next fresh file id (uuidv4)
  seeded,            \* history: the ids startProcessing put in the queue of the
                     \* run in progress (empty when no run is in progress)
  exhaustedUntil,    \* history: key -> 30 s after its latest key-class failure;
                     \* an entry the cooldown map has lost is remembered only
                     \* until the clock next advances
  spawned,           \* history: the workers the for loop of startProcessing has
                     \* spawned for the run in progress (0 when none is)
  firstCalls,        \* history: the ids of the run in progress in the order in
                     \* which their first generation call was started
  deadKeysRef,       \* useRef<Set<string>> of src/App.tsx: the keys marked dead
                     \* (the scheduler of src/App.tsx keeps this set where the
                     \* other one keeps cooldownKeysRef and nextKeyIdxRef)
  failuresLeft       \* environment: the key-class rejections the API will still
                     \* produce (NoLimit: any number)

vars == <<files, apiKeys, isProcessing, processingRef, activeWorkersRef, queueRef,
          activeKeysRef, cooldownKeysRef, nextKeyIdxRef, timers, calls, lastLog, nextId,
          seeded, exhaustedUntil, spawned, firstCalls, deadKeysRef, failuresLeft>>

\* what a worker loop carries from the render whose startProcessing began it:
\* that render's apiKeys and the ids of that render's files
Closure(keys, fs) == [keys |-> keys, known |-> {fs[i].id : i \in 1..Len(fs)}]

NoClosure == [keys |-> <<>>, known |-> {}]

\* a worker loop suspended at "await generateMetadataForFile(fileItem, settings, selectedKey)"
Call(fileId, key, c) == [fileId |-> fileId, key |-> key, c |-> c]

\* the state the scheduler's functions read and write, as one value
Cur ==
  [files |-> files, isProcessing |-> isProcessing, processingRef |-> processingRef,
   activeWorkersRef |-> activeWorkersRef, queueRef |-> queueRef,
   activeKeysRef |-> activeKeysRef, cooldownKeysRef |-> cooldownKeysRef,
   nextKeyIdxRef |-> nextKeyIdxRef, timers |-> timers, calls |-> calls,
   lastLog |-> lastLog, seeded |-> seeded, exhaustedUntil |-> exhaustedUntil,
   spawned |-> spawned, firstCalls |-> firstCalls, deadKeysRef |-> deadKeysRef]

Commit(s) ==
  \E v \in {s} :
    /\ files' = v.files
    /\ isProcessing' = v.isProcessing
    /\ processingRef' = v.processingRef
    /\ activeWorkersRef' = v.activeWorkersRef
    /\ queueRef' = v.queueRef
    /\ activeKeysRef' = v.activeKeysRef
    /\ cooldownKeysRef' = v.cooldownKeysRef
    /\ nextKeyIdxRef' = v.nextKeyIdxRef
    /\ timers' = v.timers
    /\ calls' = v.calls
    /\ lastLog' = v.lastLog
    /\ seeded' = v.seeded
    /\ exhaustedUntil' = v.exhaustedUntil
    /\ spawned' = v.spawned
    /\ firstCalls' = v.firstCalls
    /\ deadKeysRef' = v.deadKeysRef

(* ---- helpers on the items ---- *)

NewFile(id) == [id |-> id, status |-> Pending, error |-> NoError, generated |-> FALSE]

FileIdsOf(fs) == {fs[i].id : i \in 1..Len(fs)}

StatusOf(fs, id) ==
  IF \E i \in 1..Len(fs) : fs[i].id = id
  THEN (CHOOSE f \in {fs[i] : i \in 1..Len(fs)} : f.id = id).status
  ELSE "absent"

\* setFiles(prev => prev.map(f => f.id === fileId ? {...f, status} : f))
SetStatus(fs, id, st) ==
  [i \in 1..Len(fs) |-> IF fs[i].id = id THEN [fs[i] EXCEPT !.status = st] ELSE fs[i]]

SetCompleted(fs, id) ==
  [i \in 1..Len(fs) |->
     IF fs[i].id = id THEN [fs[i] EXCEPT !.status = Completed, !.generated = TRUE]
     ELSE fs[i]]

SetFailed(fs, id, err) ==
  [i \in 1..Len(fs) |->
     IF fs[i].id = id THEN [fs[i] EXCEPT !.status = Failed, !.error = err] ELSE fs[i]]

\* addLog(message, type)
Log(message, type) == [message |-> message, type |-> type]

(* ---- timers ---- *)

\* setTimeout(callback, delay): the browser runs callbacks in order of due time,
\* and those due at the same time in the order they were set
SetTimeout(ts, callback, delay) ==
  LET due == Now + delay
      n == Cardinality({i \in 1..Len(ts) : ts[i].due <= due})
  IN  SubSeq(ts, 1, n) \o <<[callback EXCEPT !.due = due]>> \o SubSeq(ts, n + 1, Len(ts))

(* ---- the credential pool ---- *)

\* the clean-up deleting an entry already at now >= expiry
PurgeExpiredInclusive(cd) == [k \in {x \in DOMAIN cd : ~(Now >= cd[x])} |-> cd[k]]

\* "Clean up expired cooldowns": delete every entry with now > expiry
PurgeExpired(cd) == [k \in {x \in DOMAIN cd : ~(Now > cd[x])} |-> cd[k]]

\* the cooldown set 30 ms ahead instead of 30 s
SetCooldownShort(cd, key) ==
  [k \in (DOMAIN cd) \cup {key} |-> IF k = key THEN Now + 30 ELSE cd[k]]

\* cooldownKeysRef.current.set(key, Date.now() + 30000)
SetCooldown(cd, key) ==
  [k \in (DOMAIN cd) \cup {key} |-> IF k = key THEN Now + COOLDOWN_MS ELSE cd[k]]

\* the test without !isBusy
EligibleIgnoringBusy(s, keyCandidate) == keyCandidate \notin DOMAIN s.cooldownKeysRef

\* !isBusy && !isCooling
Eligible(s, keyCandidate) ==
  /\ keyCandidate \notin s.activeKeysRef
  /\ keyCandidate \notin DOMAIN s.cooldownKeysRef

\* the scan of the key list from the rotation pointer: the offsets i (0-based)
\* whose candidate is eligible
EligibleOffsets(s, keys) ==
  {i \in 0..(Len(keys) - 1) : Eligible(s, keys[((s.nextKeyIdxRef + i) % Len(keys)) + 1])}

\* the scan running on to the last eligible offset
LastOffset(offs) == CHOOSE i \in offs : \A j \in offs : i >= j

\* the first eligible offset of the scan (the loop breaks there)
FirstOffset(offs) == CHOOSE i \in offs : \A j \in offs : i <= j

(* ---- the completion detector ---- *)

\* checkCompletion() returning without arming the grace timer
CheckCompletionUnarmed(s) == s

\* checkCompletion(): arm the grace timer when no worker is active
CheckCompletion(s) ==
  IF s.activeWorkersRef = 0
  THEN [s EXCEPT !.timers = SetTimeout(@, [kind |-> "checkCompletion", c |-> NoClosure, due |-> Now], GRACE_MS)]
  ELSE s

\* the grace timer's callback reporting completion without looking again
CompletionCallbackUnchecked(s) ==
  [s EXCEPT !.isProcessing = FALSE, !.processingRef = FALSE,
            !.lastLog = Log("All workers finished.", "success"),
            !.seeded = {},
            !.spawned = 0, !.firstCalls = <<>>]

\* the grace timer's callback
CompletionCallback(s) ==
  IF s.queueRef = <<>> /\ s.activeWorkersRef = 0
  THEN [s EXCEPT !.isProcessing = FALSE, !.processingRef = FALSE,
                 !.lastLog = Log("All workers finished.", "success"),
                 !.seeded = {},
                 !.spawned = 0, !.firstCalls = <<>>]
  ELSE s

(* ---- the worker loop ---- *)

\* the key-class branch requeueing at the front (unshift), as the dead-key
\* generation of the engine does
CatchKeyErrorAtFront(s, fileId, key) ==
  [s EXCEPT !.queueRef = <<fileId>> \o @,
            !.cooldownKeysRef = SetCooldown(@, key),
            !.exhaustedUntil = SetCooldown(@, key),
            !.lastLog = Log("Limited/Error. Cooling down 30s. File moved to end of queue.", "warning"),
            !.files = SetStatus(@, fileId, Pending)]

\* the key-class branch keeping that unshift next to the push
CatchKeyErrorBothEnds(s, fileId, key) ==
  [s EXCEPT !.queueRef = <<fileId>> \o Append(@, fileId),
            !.cooldownKeysRef = SetCooldown(@, key),
            !.exhaustedUntil = SetCooldown(@, key),
            !.lastLog = Log("Limited/Error. Cooling down 30s. File moved to end of queue.", "warning"),
            !.files = SetStatus(@, fileId, Pending)]

\* the key-class branch giving the item up after cooling the key down
CatchKeyErrorGivingUp(s, fileId, key) ==
  [s EXCEPT !.cooldownKeysRef = SetCooldown(@, key),
            !.exhaustedUntil = SetCooldown(@, key),
            !.lastLog = Log("[Failed]", "error"),
            !.files = SetFailed(@, fileId, ErrorString(QuotaMessage))]

\* the key-class branch resetting the item without putting it back in the queue
CatchKeyErrorDropping(s, fileId, key) ==
  [s EXCEPT !.cooldownKeysRef = SetCooldown(@, key),
            !.exhaustedUntil = SetCooldown(@, key),
            !.lastLog = Log("Limited/Error. Cooling down 30s. File moved to end of queue.", "warning"),
            !.files = SetStatus(@, fileId, Pending)]

\* the catch block for a key-class error: requeue at the back, cool the key down
CatchKeyError(s, fileId, key) ==
  [s EXCEPT !.queueRef = Append(@, fileId),
            !.cooldownKeysRef = SetCooldown(@, key),
            !.exhaustedUntil = SetCooldown(@, key),
            !.lastLog = Log("Limited/Error. Cooling down 30s. File moved to end of queue.", "warning"),
            !.files = SetStatus(@, fileId, Pending)]

\* the catch block for any other error: the item fails for good
CatchOtherError(s, fileId, msg) ==
  [s EXCEPT !.files = SetFailed(@, fileId, ErrorString(msg)),
            !.lastLog = Log("[Failed]", "error")]

\* the catch block taking every error for a key-class error
CatchAllAsKeyError(s, fileId, key, msg) ==
  CatchKeyError([s EXCEPT !.activeKeysRef = @ \ {key}], fileId, key)

\* catch (error): release the key, then classify String(error).toLowerCase()
Catch(s, fileId, key, msg) ==
  LET s1 == [s EXCEPT !.activeKeysRef = @ \ {key}]
  IN  IF IsKeyError(msg) THEN CatchKeyError(s1, fileId, key)
      ELSE CatchOtherError(s1, fileId, msg)

\* the try block after the await resolved, dropping the generated metadata
SuccessWithoutMetadata(s, fileId, key) ==
  [s EXCEPT !.files = SetStatus(@, fileId, Completed),
            !.lastLog = Log("[Success]", "success"),
            !.activeKeysRef = @ \ {key}]

\* the try block after the await resolved, without the release of the key
SuccessHoldingKey(s, fileId, key) ==
  [s EXCEPT !.files = SetCompleted(@, fileId),
            !.lastLog = Log("[Success]", "success")]

\* the try block after the await resolved
Success(s, fileId, key) ==
  [s EXCEPT !.files = SetCompleted(@, fileId),
            !.lastLog = Log("[Success]", "success"),
            !.activeKeysRef = @ \ {key}]

\* the throttle branch returning without scheduling its retry
ThrottleWithoutRetry(s, c, fileId) ==
  [s EXCEPT !.queueRef = <<fileId>> \o @,
            !.activeWorkersRef = @ - 1]

\* the throttle branch moving the rotation pointer on
ThrottleAdvancingPointer(s, c, fileId) ==
  [s EXCEPT !.queueRef = <<fileId>> \o @,
            !.activeWorkersRef = @ - 1,
            !.nextKeyIdxRef = (@ + 1) % Len(c.keys),
            !.timers = SetTimeout(@, [kind |-> "spawnWorker", c |-> c, due |-> Now], THROTTLE_MS)]

\* the throttle branch putting the file at the back of the queue
ThrottleToBack(s, c, fileId) ==
  [s EXCEPT !.queueRef = Append(@, fileId),
            !.activeWorkersRef = @ - 1,
            !.timers = SetTimeout(@, [kind |-> "spawnWorker", c |-> c, due |-> Now], THROTTLE_MS)]

\* "No key found": the file goes back to the front and the loop sleeps
Throttle(s, c, fileId) ==
  [s EXCEPT !.queueRef = <<fileId>> \o @,
            !.activeWorkersRef = @ - 1,
            !.timers = SetTimeout(@, [kind |-> "spawnWorker", c |-> c, due |-> Now], THROTTLE_MS)]

\* the record of first calls after a call for the item id has been started
FirstCall(q, id) == IF \E i \in 1..Len(q) : q[i] = id THEN q ELSE Append(q, id)

\* spawnWorker(workerId) without the look at processingRef at its top
RECURSIVE SpawnWorkerUnstoppable(_, _)
SpawnWorkerUnstoppable(s, c) ==
  IF s.queueRef = <<>> THEN CheckCompletion(s)
  ELSE
    LET fileId == Head(s.queueRef)
        s1 == [s EXCEPT !.queueRef = Tail(@),
                        !.activeWorkersRef = @ + 1,
                        !.cooldownKeysRef = PurgeExpired(@)]
        offs == EligibleOffsets(s1, c.keys)
    IN  IF offs = {} THEN Throttle(s1, c, fileId)
        ELSE
          LET idx == (s1.nextKeyIdxRef + FirstOffset(offs)) % Len(c.keys)
              selectedKey == c.keys[idx + 1]
              s2 == [s1 EXCEPT !.nextKeyIdxRef = (idx + 1) % Len(c.keys),
                               !.activeKeysRef = @ \cup {selectedKey},
                               !.files = SetStatus(@, fileId, Processing)]
          IN  IF fileId \notin c.known
              THEN \* throw new Error("File not found in state"), caught at once
                   LET s3 == Catch(s2, fileId, selectedKey, NotFoundMessage)
                   IN  SpawnWorkerUnstoppable([s3 EXCEPT !.activeWorkersRef = @ - 1], c)
              ELSE \* await generateMetadataForFile(fileItem, settings, selectedKey)
                   [s2 EXCEPT !.calls = @ (+) SetToBag({Call(fileId, selectedKey, c)}),
                              !.firstCalls = FirstCall(@, fileId)]

\* spawnWorker(workerId) of a loop with closure c, from its entry to its first
\* suspension point
RECURSIVE SpawnWorker(_, _)
SpawnWorker(s, c) ==
  IF ~s.processingRef THEN s
  ELSE IF s.queueRef = <<>> THEN CheckCompletion(s)
  ELSE
    LET fileId == Head(s.queueRef)
        s1 == [s EXCEPT !.queueRef = Tail(@),
                        !.activeWorkersRef = @ + 1,
                        !.cooldownKeysRef = PurgeExpired(@)]
        offs == EligibleOffsets(s1, c.keys)
    IN  IF offs = {} THEN Throttle(s1, c, fileId)
        ELSE
          LET idx == (s1.nextKeyIdxRef + FirstOffset(offs)) % Len(c.keys)
              selectedKey == c.keys[idx + 1]
              s2 == [s1 EXCEPT !.nextKeyIdxRef = (idx + 1) % Len(c.keys),
                               !.activeKeysRef = @ \cup {selectedKey},
                               !.files = SetStatus(@, fileId, Processing)]
          IN  IF fileId \notin c.known
              THEN \* throw new Error("File not found in state"), caught at once
                   LET s3 == Catch(s2, fileId, selectedKey, NotFoundMessage)
                   IN  SpawnWorker([s3 EXCEPT !.activeWorkersRef = @ - 1], c)
              ELSE \* await generateMetadataForFile(fileItem, settings, selectedKey)
                   [s2 EXCEPT !.calls = @ (+) SetToBag({Call(fileId, selectedKey, c)}),
                              !.firstCalls = FirstCall(@, fileId)]

\* that continuation returning without the call of spawnWorker at its end
SettleWithoutContinuing(s, call, outcome) ==
  LET s0 == [s EXCEPT !.calls = @ (-) SetToBag({call})]
      s1 == IF outcome = "ok" THEN Success(s0, call.fileId, call.key)
            ELSE Catch(s0, call.fileId, call.key, outcome)
  IN  [s1 EXCEPT !.activeWorkersRef = @ - 1]

\* that continuation leaving activeWorkersRef as it is
SettleWithoutDecrement(s, call, outcome) ==
  LET s0 == [s EXCEPT !.calls = @ (-) SetToBag({call})]
      s1 == IF outcome = "ok" THEN Success(s0, call.fileId, call.key)
            ELSE Catch(s0, call.fileId, call.key, outcome)
  IN  SpawnWorker(s1, call.c)

\* the continuation of spawnWorker after the generation call settled:
\* outcome is "ok" or the message of the rejection
Settle(s, call, outcome) ==
  LET s0 == [s EXCEPT !.calls = @ (-) SetToBag({call})]
      s1 == IF outcome = "ok" THEN Success(s0, call.fileId, call.key)
            ELSE Catch(s0, call.fileId, call.key, outcome)
  IN  SpawnWorker([s1 EXCEPT !.activeWorkersRef = @ - 1], call.c)

(* ---- startProcessing ---- *)

\* the sizing taking one worker for each key
MaxConcurrencyPerKey(n) ==
  LET atLeast == IF n > MIN_WORKERS THEN n ELSE MIN_WORKERS
  IN  IF atLeast < MAX_WORKERS THEN atLeast ELSE MAX_WORKERS

\* Math.min(20, Math.max(2, apiKeys.length * 2))
MaxConcurrency(n) ==
  LET atLeast == IF n * 2 > MIN_WORKERS THEN n * 2 ELSE MIN_WORKERS
  IN  IF atLeast < MAX_WORKERS THEN atLeast ELSE MAX_WORKERS

\* files.filter(f => f.status === Pending || f.status === Failed).map(f => f.id)
RECURSIVE TargetIds(_)
TargetIds(fs) ==
  IF fs = <<>> THEN <<>>
  ELSE (IF Head(fs).status \in {Pending, Failed} THEN <<Head(fs).id>> ELSE <<>>)
       \o TargetIds(Tail(fs))

\* that reset of the Failed items leaving their error in place
ResetFailedKeepingError(fs) ==
  [i \in 1..Len(fs) |->
     IF fs[i].status = Failed THEN [fs[i] EXCEPT !.status = Pending] ELSE fs[i]]

\* setFiles(prev => prev.map(f => f.status === Failed ? {...f, status: Pending, error: undefined} : f))
ResetFailed(fs) ==
  [i \in 1..Len(fs) |->
     IF fs[i].status = Failed THEN [fs[i] EXCEPT !.status = Pending, !.error = NoError]
     ELSE fs[i]]

\* for (let i = 0; i < maxConcurrency; i++) spawnWorker(i + 1)
RECURSIVE SpawnAll(_, _, _)
SpawnAll(s, c, n) ==
  IF n = 0 THEN s
  ELSE SpawnAll(SpawnWorker([s EXCEPT !.spawned = @ + 1], c), c, n - 1)

\* startProcessing() without the check of apiKeys.length
StartWithoutKeyCheck(s, keys) ==
  IF TargetIds(s.files) = <<>> THEN s
  ELSE
    LET s1 == [s EXCEPT !.files = ResetFailed(@),
                        !.isProcessing = TRUE,
                        !.processingRef = TRUE,
                        !.activeWorkersRef = 0,
                        !.queueRef = TargetIds(s.files),
                        !.seeded = {TargetIds(s.files)[i] : i \in 1..Len(TargetIds(s.files))},
                        !.activeKeysRef = {},
                        !.spawned = 0,
                        !.firstCalls = <<>>,
                        !.lastLog = Log("Spawning workers (Round Robin Strategy)...", "info")]
    IN  SpawnAll(s1, Closure(keys, s.files), MaxConcurrency(Len(keys)))

\* startProcessing() without the return on an empty list of targets
StartWithoutTargetCheck(s, keys) ==
  IF Len(keys) = 0
  THEN [s EXCEPT !.lastLog = Log("Failed to start: No API Key provided.", "error")]
  ELSE
    LET s1 == [s EXCEPT !.files = ResetFailed(@),
                        !.isProcessing = TRUE,
                        !.processingRef = TRUE,
                        !.activeWorkersRef = 0,
                        !.queueRef = TargetIds(s.files),
                        !.seeded = {TargetIds(s.files)[i] : i \in 1..Len(TargetIds(s.files))},
                        !.activeKeysRef = {},
                        !.spawned = 0,
                        !.firstCalls = <<>>,
                        !.lastLog = Log("Spawning workers (Round Robin Strategy)...", "info")]
    IN  SpawnAll(s1, Closure(keys, s.files), MaxConcurrency(Len(keys)))

\* startProcessing() resetting the cooldown map and the rotation pointer too
StartForgettingCooldowns(s, keys) ==
  IF Len(keys) = 0
  THEN [s EXCEPT !.lastLog = Log("Failed to start: No API Key provided.", "error")]
  ELSE IF TargetIds(s.files) = <<>> THEN s
  ELSE
    LET s1 == [s EXCEPT !.files = ResetFailed(@),
                        !.isProcessing = TRUE,
                        !.processingRef = TRUE,
                        !.activeWorkersRef = 0,
                        !.queueRef = TargetIds(s.files),
                        !.seeded = {TargetIds(s.files)[i] : i \in 1..Len(TargetIds(s.files))},
                        !.activeKeysRef = {},
                        !.cooldownKeysRef = <<>>,
                        !.nextKeyIdxRef = 0,
                        !.spawned = 0,
                        !.firstCalls = <<>>,
                        !.lastLog = Log("Spawning workers (Round Robin Strategy)...", "info")]
    IN  SpawnAll(s1, Closure(keys, s.files), MaxConcurrency(Len(keys)))

\* startProcessing(), called in a render with these apiKeys (and the files of s)
StartProcessingBody(s, keys) ==
  IF Len(keys) = 0
  THEN [s EXCEPT !.lastLog = Log("Failed to start: No API Key provided.", "error")]
  ELSE IF TargetIds(s.files) = <<>> THEN s
  ELSE
    LET s1 == [s EXCEPT !.files = ResetFailed(@),
                        !.isProcessing = TRUE,
                        !.processingRef = TRUE,
                        !.activeWorkersRef = 0,
                        !.queueRef = TargetIds(s.files),
                        !.seeded = {TargetIds(s.files)[i] : i \in 1..Len(TargetIds(s.files))},
                        !.activeKeysRef = {},
                        !.spawned = 0,
                        !.firstCalls = <<>>,
                        !.lastLog = Log("Spawning workers (Round Robin Strategy)...", "info")]
    IN  SpawnAll(s1, Closure(keys, s.files), MaxConcurrency(Len(keys)))

\* the worker loops that have not returned: suspended in a call or in a
\* throttle wait
LiveLoops ==
  BagCardinality(calls) + Cardinality({i \in 1..Len(timers) : timers[i].kind = "spawnWorker"})

\* canGenerate: the Generate button is enabled
CanGenerate ==
  /\ ~isProcessing
  /\ \E i \in 1..Len(files) : files[i].status \in {Pending, Failed}

(* ---- actions ---- *)

NoLog == Log("", "none")

Init ==
  /\ files = <<>>
  /\ apiKeys = <<>>
  /\ isProcessing = FALSE
  /\ processingRef = FALSE
  /\ activeWorkersRef = 0
  /\ queueRef = <<>>
  /\ activeKeysRef = {}
  /\ cooldownKeysRef = <<>>
  /\ nextKeyIdxRef = 0
  /\ timers = <<>>
  /\ calls = EmptyBag
  /\ lastLog = NoLog
  /\ nextId = 1
  /\ seeded = {}
  /\ exhaustedUntil = <<>>
  /\ spawned = 0
  /\ firstCalls = <<>>
  /\ deadKeysRef = {}
  /\ failuresLeft = NoLimit

\* the user clicks Generate Metadata (rendered while not processing, enabled
\* by canGenerate); the model follows a new run while at most MaxStale loops
\* of earlier runs are alive
StartProcessing ==
  /\ CanGenerate
  /\ LiveLoops <= MaxStale
  /\ Commit(StartProcessingBody(Cur, apiKeys))
  /\ UNCHANGED <<apiKeys, nextId, failuresLeft>>

\* the API rejects with a key-class error only while it has such rejections left
KeyClass(outcome) == outcome # "ok" /\ IsKeyError(outcome)
Allowed(left, outcome) == KeyClass(outcome) => left # 0
Spend(left, outcome) == IF KeyClass(outcome) /\ left # NoLimit THEN left - 1 ELSE left

\* the generation call `call` settles: it resolves ("ok") or rejects with the
\* message `outcome`, and the worker loop runs on from its await
ResolveAs(call, outcome) ==
  /\ call \in BagToSet(calls)
  /\ Allowed(failuresLeft, outcome)
  /\ Commit(Settle(Cur, call, outcome))
  /\ failuresLeft' = Spend(failuresLeft, outcome)
  /\ UNCHANGED <<apiKeys, nextId>>

\* a generation call settles
Resolve == \E call \in BagToSet(calls) : \E outcome \in {"ok"} \cup Messages : ResolveAs(call, outcome)

\* the timer that is first in firing order is due and runs its callback
TimerFire ==
  /\ timers # <<>>
  /\ Head(timers).due <= Now
  /\ LET t == Head(timers)
         s == [Cur EXCEPT !.timers = Tail(@)]
     IN  IF t.kind = "spawnWorker"
         THEN Commit(SpawnWorker(s, t.c))
         ELSE Commit(CompletionCallback(s))
  /\ UNCHANGED <<apiKeys, nextId, failuresLeft>>

\* a stored time after d milliseconds have passed; every expiry already past is
\* kept as Past, every timer already due as due Now
Shift(t, d) == IF t - d < Now THEN Past ELSE t - d

ShiftDue(t, d) == IF t - d < Now THEN Now ELSE t - d

\* the cooldown entries that have not expired
Cooling(cd) == {k \in DOMAIN cd : cd[k] >= Now}

\* Time passes one throttle delay at a time while every running cooldown is
\* young (at most MaxPolls delays old) or about to expire, and only when a timer
\* or an expiry waits for it; it can always jump to the expiry of a cooldown.
SlowTickAllowed ==
  /\ \A k \in Cooling(cooldownKeysRef) :
        \/ cooldownKeysRef[k] <= Now + THROTTLE_MS
        \/ cooldownKeysRef[k] - THROTTLE_MS >= Now + COOLDOWN_MS - MaxPolls * THROTTLE_MS
  /\ \/ \E i \in 1..Len(timers) : timers[i].due > Now
     \/ \E k \in Cooling(cooldownKeysRef) : cooldownKeysRef[k] <= Now + THROTTLE_MS

TickSteps ==
  (IF SlowTickAllowed THEN {THROTTLE_MS} ELSE {})
  \cup {cooldownKeysRef[k] - Now : k \in {x \in Cooling(cooldownKeysRef) : cooldownKeysRef[x] > Now}}

\* d milliseconds pass
Tick ==
  /\ \E d \in TickSteps :
       /\ cooldownKeysRef' = [k \in DOMAIN cooldownKeysRef |-> Shift(cooldownKeysRef[k], d)]
       /\ timers' = [i \in 1..Len(timers) |-> [timers[i] EXCEPT !.due = ShiftDue(@, d)]]
       /\ exhaustedUntil' = [k \in {x \in DOMAIN exhaustedUntil \cap DOMAIN cooldownKeysRef :
                                         exhaustedUntil[x] - d >= Now}
                               |-> exhaustedUntil[k] - d]
  /\ UNCHANGED <<files, apiKeys, isProcessing, processingRef, activeWorkersRef, queueRef,
                 activeKeysRef, nextKeyIdxRef, calls, lastLog, nextId, seeded,
                 spawned, firstCalls, deadKeysRef, failuresLeft>>

\* processFiles: an accepted upload (the inputs are disabled while processing)
ProcessFiles ==
  /\ ~isProcessing
  /\ nextId <= MaxFiles
  /\ files' = Append(files, NewFile(nextId))
  /\ nextId' = nextId + 1
  /\ lastLog' = Log("Uploaded files. Filtering...", "info")
  /\ UNCHANGED <<apiKeys, isProcessing, processingRef, activeWorkersRef, queueRef,
                 activeKeysRef, cooldownKeysRef, nextKeyIdxRef, timers, calls,
                 seeded, exhaustedUntil, spawned, firstCalls, deadKeysRef, failuresLeft>>

\* handleClearAll (the button is disabled while processing or with no file)
HandleClearAll ==
  /\ Len(files) # 0
  /\ ~isProcessing
  /\ files' = <<>>
  /\ isProcessing' = FALSE
  /\ processingRef' = FALSE
  /\ lastLog' = Log("Cleared all files.", "warning")
  /\ UNCHANGED <<apiKeys, activeWorkersRef, queueRef, activeKeysRef, cooldownKeysRef,
                 nextKeyIdxRef, timers, calls, nextId,
                 seeded, exhaustedUntil, spawned, firstCalls, deadKeysRef, failuresLeft>>

\* handleDelete(id) (the card's Delete button is disabled while processing)
HandleDelete ==
  /\ ~isProcessing
  /\ \E id \in FileIdsOf(files) :
       files' = SelectSeq(files, LAMBDA f : f.id # id)
  /\ lastLog' = Log("Deleted file", "warning")
  /\ UNCHANGED <<apiKeys, isProcessing, processingRef, activeWorkersRef, queueRef,
                 activeKeysRef, cooldownKeysRef, nextKeyIdxRef, timers, calls, nextId,
                 seeded, exhaustedUntil, spawned, firstCalls, deadKeysRef, failuresLeft>>

\* onRetry(id) putting the item back in the queue as well
OnRetryRequeue ==
  /\ \E id \in FileIdsOf(files) :
       /\ StatusOf(files, id) = Failed
       /\ files' = SetStatus(files, id, Pending)
       /\ queueRef' = Append(queueRef, id)
  /\ UNCHANGED <<apiKeys, isProcessing, processingRef, activeWorkersRef,
                 activeKeysRef, cooldownKeysRef, nextKeyIdxRef, timers, calls, lastLog,
                 nextId,
                 seeded, exhaustedUntil, spawned, firstCalls, deadKeysRef, failuresLeft>>

\* onRetry(id): the card shows the Retry button on a failed item
OnRetry ==
  /\ \E id \in FileIdsOf(files) :
       /\ StatusOf(files, id) = Failed
       /\ files' = SetStatus(files, id, Pending)
  /\ UNCHANGED <<apiKeys, isProcessing, processingRef, activeWorkersRef, queueRef,
                 activeKeysRef, cooldownKeysRef, nextKeyIdxRef, timers, calls, lastLog,
                 nextId,
                 seeded, exhaustedUntil, spawned, firstCalls, deadKeysRef, failuresLeft>>

\* the key lists the user can enter: up to MaxKeys keys, two of which may be the
\* same string; a key name is used only after the names before it (renaming the
\* keys changes nothing)
RECURSIVE SeqsUpTo(_, _)
SeqsUpTo(S, n) ==
  IF n = 0 THEN {<<>>}
  ELSE LET shorter == SeqsUpTo(S, n - 1)
       IN  shorter \cup {Append(q, x) : q \in shorter, x \in S}

KeyLists ==
  {q \in SeqsUpTo(1..MaxKeys, MaxKeys) :
     \A i \in 1..Len(q) : q[i] = 1 \/ \E j \in 1..(i - 1) : q[j] = q[i] - 1}

KeyOf(n) == CASE n = 1 -> "k1" [] n = 2 -> "k2" [] n = 3 -> "k3" [] OTHER -> "k4"

\* handleSetApiKeys(keys) without the effect on [apiKeys]
HandleSetApiKeysWithoutEffect ==
  /\ ~isProcessing
  /\ \E q \in KeyLists :
     LET keys == [i \in 1..Len(q) |-> KeyOf(q[i])]
     IN
       /\ apiKeys' = keys
       /\ lastLog' = IF Len(keys) > 0 THEN Log("User inputs API Keys.", "info") ELSE lastLog
  /\ UNCHANGED <<files, isProcessing, processingRef, activeWorkersRef, queueRef,
                 activeKeysRef, cooldownKeysRef, nextKeyIdxRef, timers, calls, nextId,
                 seeded, exhaustedUntil, spawned, firstCalls, deadKeysRef, failuresLeft>>

\* handleSetApiKeys(keys) (the textarea is disabled while processing), and the
\* effect on [apiKeys] that follows the render
HandleSetApiKeys ==
  /\ ~isProcessing
  /\ \E q \in KeyLists :
     LET keys == [i \in 1..Len(q) |-> KeyOf(q[i])]
     IN
       /\ apiKeys' = keys
       /\ lastLog' = IF Len(keys) > 0 THEN Log("User inputs API Keys.", "info") ELSE lastLog
  /\ cooldownKeysRef' = <<>>
  /\ nextKeyIdxRef' = 0
  /\ UNCHANGED <<files, isProcessing, processingRef, activeWorkersRef, queueRef,
                 activeKeysRef, timers, calls, nextId,
                 seeded, exhaustedUntil, spawned, firstCalls, deadKeysRef, failuresLeft>>

Next ==
  \/ StartProcessing
  \/ Resolve
  \/ TimerFire
  \/ Tick
  \/ ProcessFiles
  \/ HandleClearAll
  \/ HandleDelete
  \/ OnRetry
  \/ HandleSetApiKeys

Spec == Init /\ [][Next]_vars

(* ---- properties ---- *)

\* how often id is in the queue q
Count(q, id) == Cardinality({i \in 1..Len(q) : q[i] = id})

\* the number of calls in flight in the bag cs that satisfy Test
Matching(cs, Test(_)) ==
  LET S == {c \in BagToSet(cs) : Test(c)}
  IN  IF S = {} THEN 0 ELSE BagCardinality([c \in S |-> cs[c]])

\* the number of calls in flight for the item id / with the key k
InFlight(cs, id) == LET T(c) == c.fileId = id IN Matching(cs, T)
HeldBy(cs, k) == LET T(c) == c.key = k IN Matching(cs, T)

\* the item has reached a final status
Finished(fs, id) == StatusOf(fs, id) \in {Completed, Failed}

\* the calls a step has put in flight: the worker loop of the step selected
\* their keys
NewCalls == {c \in BagToSet(calls') : CopiesIn(c, calls') > CopiesIn(c, calls)}

\* the throttle waits of 1 s in the timer queue ts that have just begun
FreshThrottles(ts) ==
  Cardinality({i \in 1..Len(ts) : ts[i].kind = "spawnWorker" /\ ts[i].due = Now + THROTTLE_MS})

\* q is what is left of the queue p after pops from its front
IsSuffix(q, p) == \E n \in 0..Len(p) : q = SubSeq(p, n + 1, Len(p))

(* C1: at every moment each credential string is held by at most one worker
   whose generation call is in flight: a key in flight is never handed to a
   second worker. *)
C1_KeyHeldByOneWorker ==
  /\ \A k \in {c.key : c \in BagToSet(calls)} : HeldBy(calls, k) <= 1
  /\ \A c \in BagToSet(calls) : c.key \in activeKeysRef

\* every key of the list is in flight, and a worker that found none free
\* waits in its throttle while items are queued
C1_Witness ==
  /\ processingRef
  /\ queueRef # <<>>
  /\ calls # EmptyBag
  /\ \A i \in 1..Len(apiKeys) : HeldBy(calls, apiKeys[i]) = 1
  /\ \E i \in 1..Len(timers) : timers[i].kind = "spawnWorker"

(* C2: between scheduler steps every item seeded into the run in progress is in
   exactly one place: in the queue, in flight at exactly one worker, or
   finished (Completed or Failed); none is lost and none is duplicated. *)
C2_ExactlyOnePlace ==
  \A id \in seeded :
    Count(queueRef, id) + InFlight(calls, id) + (IF Finished(files, id) THEN 1 ELSE 0) = 1

(* C3: whenever the completion check sets the processing flag to false, every
   item seeded into that run is Completed or Failed, and none is Processing. *)
C3_FinishedMeansAllSettled ==
  [][(processingRef /\ ~processingRef') =>
       \A id \in seeded : Finished(files', id)]_vars

(* C4: the work queue never holds the same item id twice, whatever throttle
   push-backs to the front and key-error requeues to the back happen. *)
C4_QueueWithoutDuplicates == \A id \in FileIds : Count(queueRef, id) <= 1

\* item 1 requeued behind item 2 after a key-class failure, and item 2 pushed
\* back to the front by a worker that found the key cooling
C4_Witness ==
  /\ queueRef = <<2, 1>>
  /\ cooldownKeysRef # <<>>
  /\ \E i \in 1..Len(timers) : timers[i].kind = "spawnWorker" /\ timers[i].due = Now + THROTTLE_MS

(* C5: a key whose cooldown deadline has not passed (now <= deadline) is never
   selected by a worker, and the expired entries (now > deadline) have been
   purged from the cooldown map by every step in which a worker scanned the
   key list. *)
C5_CoolingKeyNeverSelected ==
  [][/\ \A c \in NewCalls :
          /\ ~(c.key \in DOMAIN cooldownKeysRef /\ Now <= cooldownKeysRef[c.key])
          /\ c.key \notin DOMAIN cooldownKeysRef'
     /\ (NewCalls # {} \/ FreshThrottles(timers') > FreshThrottles(timers))
          => \A k \in DOMAIN cooldownKeysRef' : ~(Now > cooldownKeysRef'[k])]_vars

\* a key sits out its cooldown exactly at its deadline while another key is busy:
\* the worker holding the queued item waits in its throttle
C5_Witness ==
  /\ processingRef
  /\ queueRef # <<>>
  /\ \E k \in DOMAIN cooldownKeysRef : cooldownKeysRef[k] = Now /\ k \notin activeKeysRef
  /\ \E i \in 1..Len(timers) : timers[i].kind = "spawnWorker" /\ timers[i].due = Now + THROTTLE_MS

(* C6: when a generation call fails with a credential-exhaustion error (here
   429), the item's id is appended exactly once to the back of the queue and
   its status is Pending again; the item is not attempted again before it has
   been popped from the queue again. *)
C6_RequeuedOnceAtBack ==
  [][\A call \in BagToSet(calls) :
       ResolveAs(call, QuotaMessage) =>
         /\ IsSuffix(queueRef', Append(queueRef, call.fileId))
         /\ Count(queueRef', call.fileId) + InFlight(calls', call.fileId) = 1
         /\ Count(queueRef', call.fileId) = 1 =>
              /\ queueRef'[Len(queueRef')] = call.fileId
              /\ StatusOf(files', call.fileId) = Pending
         /\ InFlight(calls', call.fileId) = 1 =>
              StatusOf(files', call.fileId) = Processing]_vars

\* an item waits Pending at the back of the queue, behind another one, right
\* after its call failed on a key that now has the full cooldown ahead
C6_Witness ==
  /\ processingRef
  /\ lastLog = Log("Limited/Error. Cooling down 30s. File moved to end of queue.", "warning")
  /\ Len(queueRef) = 2
  /\ StatusOf(files, queueRef[2]) = Pending
  /\ \E k \in DOMAIN cooldownKeysRef : cooldownKeysRef[k] = Now + COOLDOWN_MS

(* C7 as stated: after a credential-exhaustion failure on a key at time T, no
   worker selects that key at any time up to and including T + 30 s. *)
C7_NotSelectedFor30s ==
  [][\A c \in NewCalls :
       c.key \notin DOMAIN exhaustedUntil /\ c.key \notin DOMAIN exhaustedUntil']_vars

(* C7 amended: a credential-exhaustion failure on a key at time T gives the key
   a cooldown entry with deadline T + 30 s; until that deadline has passed the
   entry is only ever removed by a replacement of the credential list (which
   clears all cooldowns), and no worker selects a key while its entry has not
   expired. *)
C7_NotSelectedWhileListKept ==
  [][/\ \A call \in BagToSet(calls) :
          ResolveAs(call, QuotaMessage) =>
            /\ call.key \in DOMAIN cooldownKeysRef'
            /\ cooldownKeysRef'[call.key] = Now + COOLDOWN_MS
     /\ \A k \in Cooling(cooldownKeysRef) :
          \/ HandleSetApiKeys
          \/ Tick
          \/ /\ k \in DOMAIN cooldownKeysRef'
             /\ cooldownKeysRef'[k] \in {cooldownKeysRef[k], Now + COOLDOWN_MS}
     /\ Tick => \A k \in DOMAIN cooldownKeysRef : k \in DOMAIN cooldownKeysRef'
     /\ \A c \in NewCalls :
          /\ c.key \notin Cooling(cooldownKeysRef)
          /\ c.key \notin Cooling(cooldownKeysRef')]_vars

\* a second has passed since a key failed: the key is idle, still cooling, and
\* the worker holding the queued item waits in its throttle
C7_Witness ==
  /\ processingRef
  /\ queueRef # <<>>
  /\ \E k \in DOMAIN cooldownKeysRef :
       /\ cooldownKeysRef[k] = Now + COOLDOWN_MS - THROTTLE_MS
       /\ k \notin activeKeysRef
  /\ \E i \in 1..Len(timers) : timers[i].kind = "spawnWorker"

(* C8: when a generation call fails with an error that is not of the
   credential-exhaustion class (here 'Unsupported format'), the item becomes
   Failed with that error text recorded and is not requeued, the key gets no
   cooldown, and the run carries on with the other items: those in flight stay
   in flight, those finished keep their result, those queued stay queued or
   are taken up, and the worker goes straight on to the item at the head of
   the queue. *)
C8_PermanentFailure ==
  [][\A call \in BagToSet(calls) :
       ResolveAs(call, FormatMessage) =>
         /\ StatusOf(files', call.fileId) = Failed
         /\ \E i \in 1..Len(files') :
              files'[i].id = call.fileId /\ Includes(files'[i].error, FormatMessage)
         /\ Count(queueRef', call.fileId) = 0
         /\ InFlight(calls', call.fileId) = 0
         /\ call.key \in DOMAIN cooldownKeysRef' =>
              /\ call.key \in DOMAIN cooldownKeysRef
              /\ cooldownKeysRef'[call.key] = cooldownKeysRef[call.key]
         /\ processingRef' = processingRef
         /\ \A id \in FileIdsOf(files) \ {call.fileId} :
              /\ InFlight(calls', id) >= InFlight(calls, id)
              /\ Finished(files, id) =>
                   \E i \in 1..Len(files) : files[i].id = id /\ files'[i] = files[i]
              /\ Count(queueRef, id) = 1 =>
                   Count(queueRef', id) + InFlight(calls', id) = 1
         /\ (processingRef /\ queueRef # <<>>) => InFlight(calls', Head(queueRef)) = 1]_vars

\* an item has failed for good on a format error while the run goes on with
\* another item in flight, and no key is cooling
C8_Witness ==
  /\ processingRef
  /\ \E i \in 1..Len(files) :
       files[i].status = Failed /\ files[i].error = ErrorString(FormatMessage)
  /\ lastLog = Log("[Failed]", "error")
  /\ calls # EmptyBag
  /\ cooldownKeysRef = <<>>

(* C9: a rejection with the message 'Request timed out (60s limit)' is handled
   as a credential-exhaustion error: the item is requeued Pending instead of
   failing, and the key is cooled down for 30 s. *)
C9_TimeoutIsExhaustion ==
  [][\A call \in BagToSet(calls) :
       ResolveAs(call, TimeoutMessage) =>
         /\ StatusOf(files', call.fileId) # Failed
         /\ Count(queueRef', call.fileId) + InFlight(calls', call.fileId) = 1
         /\ call.key \in DOMAIN cooldownKeysRef'
         /\ cooldownKeysRef'[call.key] = Now + COOLDOWN_MS]_vars

(* C10: startProcessing with an empty credential list changes nothing of the
   scheduler or of the items and spawns no worker; all it does is log the
   error 'Failed to start: No API Key provided.' *)
C10_NoKeyNoStart ==
  [][(Len(apiKeys) = 0 /\ StartProcessing) =>
       /\ UNCHANGED <<files, apiKeys, isProcessing, processingRef, activeWorkersRef,
                      queueRef, activeKeysRef, cooldownKeysRef, nextKeyIdxRef,
                      timers, calls, seeded, spawned>>
       /\ lastLog' = Log("Failed to start: No API Key provided.", "error")]_vars

\* Generate was clicked with an item waiting and no key entered: nothing runs
C10_Witness ==
  /\ apiKeys = <<>>
  /\ lastLog = Log("Failed to start: No API Key provided.", "error")
  /\ \E i \in 1..Len(files) : files[i].status = Pending
  /\ ~isProcessing /\ ~processingRef
  /\ queueRef = <<>> /\ timers = <<>> /\ calls = EmptyBag

(* ---- the scenario of three items and one key ---- *)

\* one item more than the uploads of the general specification: three
ScenarioItems == MaxFiles + 1

\* an item Completed by an earlier run
DoneFile(id) == [id |-> id, status |-> Completed, error |-> NoError, generated |-> TRUE]

\* the item lists of the scenario: the three Pending items, alone or with one
\* item of an earlier run, Completed, somewhere in the list
ScenarioFiles ==
  LET fresh == [i \in 1..ScenarioItems |-> NewFile(i)]
  IN  {fresh} \cup
      {SubSeq(fresh, 1, p) \o <<DoneFile(ScenarioItems + 1)>> \o SubSeq(fresh, p + 1, ScenarioItems) :
         p \in 0..ScenarioItems}

\* three Pending items are uploaded and one key is entered; the API rejects
\* the first call it gets with a 429 and no other
InitScenario ==
  /\ files \in ScenarioFiles
  /\ apiKeys = <<KeyOf(1)>>
  /\ isProcessing = FALSE
  /\ processingRef = FALSE
  /\ activeWorkersRef = 0
  /\ queueRef = <<>>
  /\ activeKeysRef = {}
  /\ cooldownKeysRef = <<>>
  /\ nextKeyIdxRef = 0
  /\ timers = <<>>
  /\ calls = EmptyBag
  /\ lastLog = Log("User inputs API Keys.", "info")
  /\ nextId = ScenarioItems + 2
  /\ seeded = {}
  /\ exhaustedUntil = <<>>
  /\ spawned = 0
  /\ firstCalls = <<>>
  /\ deadKeysRef = {}
  /\ failuresLeft = 1

\* a call settles as the scenario prescribes: the first one fails with 429,
\* every later one succeeds
ScriptedResolve ==
  \E call \in BagToSet(calls) :
    \/ failuresLeft > 0 /\ ResolveAs(call, QuotaMessage)
    \/ failuresLeft = 0 /\ ResolveAs(call, "ok")

NextScenario == StartProcessing \/ ScriptedResolve \/ TimerFire \/ Tick

\* the user clicks Generate, every call settles, every due timer fires and
\* time passes
SpecScenario ==
  /\ InitScenario
  /\ [][NextScenario]_vars
  /\ WF_vars(StartProcessing)
  /\ WF_vars(ScriptedResolve)
  /\ WF_vars(TimerFire)
  /\ WF_vars(Tick)

\* the step puts a key into cooldown
CooldownSet ==
  \E k \in DOMAIN cooldownKeysRef' :
    /\ cooldownKeysRef'[k] = Now + COOLDOWN_MS
    /\ k \in DOMAIN cooldownKeysRef => cooldownKeysRef[k] # Now + COOLDOWN_MS

AllCompleted == \A i \in 1..Len(files) : files[i].status = Completed

(* C11: with 3 Pending items and 1 credential, the first generation call
   failing with a 429 and every later call succeeding, the run eventually
   reports finished with all three items Completed; never are two generation
   calls in flight together; and the credential is put into cooldown exactly
   once, by the failure of the first call. *)
C11_ThreeItemsOneKey ==
  /\ <>[](~processingRef /\ ~isProcessing /\ AllCompleted)
  /\ [](BagCardinality(calls) <= 1)
  /\ [][CooldownSet <=> (failuresLeft = 1 /\ failuresLeft' = 0)]_vars
  /\ []((~processingRef /\ AllCompleted) => failuresLeft = 0)

\* the run is over: the three items are Completed, the 429 was spent and the
\* cooldown has run out
C11_Witness ==
  /\ ~processingRef /\ ~isProcessing
  /\ Len(files) >= ScenarioItems
  /\ AllCompleted
  /\ failuresLeft = 0
  /\ calls = EmptyBag /\ queueRef = <<>>

(* ---- runs in which the API rejects with key-class errors finitely often ---- *)

\* some items are uploaded and some keys entered; the API has at most
\* MaxFailures key-class rejections in store
InitRun ==
  /\ \E n \in 1..MaxFiles : files = [i \in 1..n |-> NewFile(i)] /\ nextId = n + 1
  /\ \E q \in KeyLists \ {<<>>} : apiKeys = [i \in 1..Len(q) |-> KeyOf(q[i])]
  /\ isProcessing = FALSE
  /\ processingRef = FALSE
  /\ activeWorkersRef = 0
  /\ queueRef = <<>>
  /\ activeKeysRef = {}
  /\ cooldownKeysRef = <<>>
  /\ nextKeyIdxRef = 0
  /\ timers = <<>>
  /\ calls = EmptyBag
  /\ lastLog = Log("User inputs API Keys.", "info")
  /\ seeded = {}
  /\ exhaustedUntil = <<>>
  /\ spawned = 0
  /\ firstCalls = <<>>
  /\ deadKeysRef = {}
  /\ failuresLeft \in 0..MaxFailures

NextRun == StartProcessing \/ Resolve \/ TimerFire \/ Tick \/ OnRetry

\* the user starts runs and retries items at will; every call in flight
\* settles, every due timer fires and time passes
SpecRun ==
  /\ InitRun
  /\ [][NextRun]_vars
  /\ WF_vars(Resolve)
  /\ WF_vars(TimerFire)
  /\ WF_vars(Tick)

\* the run has been reported finished, the queue drained and no worker in flight
ReportedFinished ==
  /\ ~processingRef /\ ~isProcessing
  /\ lastLog = Log("All workers finished.", "success")
  /\ queueRef = <<>>
  /\ activeWorkersRef = 0
  /\ calls = EmptyBag

(* C12: when workers and timers are scheduled fairly, every generation call
   eventually settles and key-class failures happen only finitely often, a
   started run eventually reports finished (the processing flag becomes
   false) with the queue drained and no worker in flight, for every number of
   items and keys within the bounds. *)
C12_RunEventuallyFinishes == processingRef ~> ReportedFinished

\* a run that met a key-class failure has been reported finished
C12_Witness ==
  /\ ReportedFinished
  /\ failuresLeft = 0
  /\ cooldownKeysRef # <<>>
  /\ \A i \in 1..Len(files) : files[i].status \in {Completed, Failed}

(* ---- runs in which every generation call is rejected with an exhaustion error ---- *)

\* a generation call is rejected with a message of the key class
ExhaustedResolve ==
  \E call \in BagToSet(calls) : \E msg \in {m \in Messages : IsKeyError(m)} :
    ResolveAs(call, msg)

InitExhausted ==
  /\ \E n \in 1..MaxFiles : files = [i \in 1..n |-> NewFile(i)] /\ nextId = n + 1
  /\ \E q \in KeyLists \ {<<>>} : apiKeys = [i \in 1..Len(q) |-> KeyOf(q[i])]
  /\ isProcessing = FALSE
  /\ processingRef = FALSE
  /\ activeWorkersRef = 0
  /\ queueRef = <<>>
  /\ activeKeysRef = {}
  /\ cooldownKeysRef = <<>>
  /\ nextKeyIdxRef = 0
  /\ timers = <<>>
  /\ calls = EmptyBag
  /\ lastLog = Log("User inputs API Keys.", "info")
  /\ seeded = {}
  /\ exhaustedUntil = <<>>
  /\ spawned = 0
  /\ firstCalls = <<>>
  /\ deadKeysRef = {}
  /\ failuresLeft = NoLimit

NextExhausted == StartProcessing \/ ExhaustedResolve \/ TimerFire \/ Tick

SpecExhausted ==
  /\ InitExhausted
  /\ [][NextExhausted]_vars
  /\ WF_vars(ExhaustedResolve)
  /\ WF_vars(TimerFire)
  /\ WF_vars(Tick)

\* a worker loop starts a generation call
CallStarts == NewCalls # {}

(* C13: when every generation call is rejected with an exhaustion error, the
   run never reports finished: the processing flag, once true, stays true for
   ever, no item ever becomes Failed, and generation calls for the items keep
   being started again and again without any ceiling. *)
C13_ExhaustedRunNeverEnds ==
  /\ [][processingRef => (processingRef' /\ isProcessing')]_vars
  /\ [](\A i \in 1..Len(files) : files[i].status # Failed)
  /\ [](lastLog # Log("All workers finished.", "success"))
  /\ ([]~processingRef) \/ []<><<CallStarts>>_vars

\* the only item, rejected before, is in flight again while the key of that
\* rejection is still cooling down
C13_Witness ==
  /\ processingRef
  /\ Len(files) = 1
  /\ \E k \in DOMAIN cooldownKeysRef : cooldownKeysRef[k] >= Now
  /\ InFlight(calls, files[1].id) = 1
  /\ files[1].status = Processing

\* the timer that fires in this step is a grace timer of checkCompletion
CompletionFires ==
  /\ timers # <<>>
  /\ Head(timers).kind = "checkCompletion"
  /\ TimerFire

\* what the callback of the grace timer looks at
Idle == queueRef = <<>> /\ activeWorkersRef = 0

(* C14: the callback of checkCompletion's grace timer sets the processing flag
   to false and logs the completion only if, when it looks again after the
   delay, the queue is empty and the counter of active workers is zero; when
   an item is in the queue or a worker is active at that moment, the flag
   stays as it is and nothing is logged. *)
C14_CompletionOnlyAfterRecheck ==
  [][CompletionFires =>
       /\ Idle => /\ ~processingRef' /\ ~isProcessing'
                  /\ lastLog' = Log("All workers finished.", "success")
       /\ ~Idle => UNCHANGED <<processingRef, isProcessing, lastLog, files, queueRef,
                               activeWorkersRef, calls>>
       /\ (processingRef /\ ~processingRef') => Idle]_vars

\* a grace timer is due during a run while a worker is active
C14_Witness ==
  /\ processingRef
  /\ timers # <<>>
  /\ Head(timers).kind = "checkCompletion"
  /\ Head(timers).due <= Now
  /\ activeWorkersRef > 0
  /\ calls # EmptyBag

\* a click on Generate Metadata that starts a run
RunStarts == StartProcessing /\ Len(apiKeys) > 0 /\ CanGenerate

\* the positions of the items that are Pending or Failed
TargetPositions(fs) == {i \in 1..Len(fs) : fs[i].status \in {Pending, Failed}}

\* q lists the ids of the Pending and Failed items of fs in display order, each once
ListsTargets(q, fs) ==
  /\ Len(q) = Cardinality(TargetPositions(fs))
  /\ \A i \in TargetPositions(fs) :
       q[Cardinality({k \in TargetPositions(fs) : k <= i})] = fs[i].id

(* C15: at the start of a run every item that was Failed becomes Pending with
   its error cleared, and the queue becomes exactly the ids of the items that
   were Pending or Failed, in display order and each once (the workers spawned
   by the same click have popped a prefix of it, whose items are now in
   flight); the items that were Completed or Processing are not enqueued and
   keep their status. *)
C15_SeedingAtRunStart ==
  [][RunStarts =>
       \E q \in UNION {[1..n -> FileIdsOf(files)] : n \in 0..Len(files)} :
         /\ ListsTargets(q, files)
         /\ IsSuffix(queueRef', q)
         /\ \A j \in 1..Len(q) : Count(q, q[j]) = 1
         /\ seeded' = {q[j] : j \in 1..Len(q)}
         /\ \A j \in 1..Len(q) :
              InFlight(calls', q[j]) = (IF j <= Len(q) - Len(queueRef') THEN 1 ELSE 0)
         /\ BagCardinality(calls') = Len(q) - Len(queueRef')
         /\ Len(files') = Len(files)
         /\ \A i \in 1..Len(files) :
              /\ files'[i].id = files[i].id
              /\ files[i].status = Failed => files'[i].error = NoError
              /\ files[i].status = Pending => files'[i].error = files[i].error
              /\ i \in TargetPositions(files) =>
                   files'[i].status =
                     (IF InFlight(calls', files[i].id) = 1 THEN Processing ELSE Pending)
              /\ i \notin TargetPositions(files) =>
                   /\ files'[i] = files[i]
                   /\ Count(queueRef', files[i].id) = 0
                   /\ InFlight(calls', files[i].id) = 0]_vars

\* a run has just started beside a Completed item: one seeded item is in
\* flight, the Completed one is neither queued nor in flight
C15_Witness ==
  /\ processingRef
  /\ lastLog = Log("Spawning workers (Round Robin Strategy)...", "info")
  /\ \E i, j \in 1..Len(files) :
       /\ files[i].status = Completed
       /\ files[i].id \notin seeded
       /\ Count(queueRef, files[i].id) = 0
       /\ files[j].status = Processing
       /\ files[j].id \in seeded
       /\ InFlight(calls, files[j].id) = 1

\* the item id is neither in the queue nor in flight
Aside(q, cs, id) == Count(q, id) = 0 /\ InFlight(cs, id) = 0

\* a step in which the Retry button of the Failed item id has acted
Retried(id) ==
  /\ StatusOf(files, id) = Failed
  /\ StatusOf(files', id) = Pending
  /\ ~RunStarts

(* C16: the retry of an item never changes the work queue, the set of busy
   keys, the cooldown map, the counter of active workers or the processing
   flag: it changes only the status of that item.  An item that is neither
   queued nor in flight is taken into the queue only by a startProcessing
   that comes later, and only if it is Pending or Failed at that moment. *)
C16_RetryTouchesOnlyStatus ==
  [][\A id \in FileIdsOf(files) :
       /\ Retried(id) =>
            /\ UNCHANGED <<queueRef, activeKeysRef, cooldownKeysRef, activeWorkersRef,
                           processingRef, isProcessing, calls, timers>>
            /\ files' = [i \in 1..Len(files) |->
                           IF files[i].id = id THEN [files[i] EXCEPT !.status = Pending]
                           ELSE files[i]]
       /\ (Aside(queueRef, calls, id) /\ ~Aside(queueRef', calls', id)) =>
            /\ RunStarts
            /\ StatusOf(files, id) \in {Pending, Failed}]_vars

\* during a run an item that failed has been retried: it is Pending, still
\* carries its error, and is neither queued nor in flight
C16_Witness ==
  /\ processingRef
  /\ \E i \in 1..Len(files) :
       /\ files[i].status = Pending
       /\ files[i].error # NoError
       /\ Aside(queueRef, calls, files[i].id)

\* the status changes the worker loop makes
SchedulerMoves ==
  {<<Pending, Processing>>, <<Processing, Completed>>, <<Processing, Failed>>,
   <<Processing, Pending>>}

\* the generation call of the item id is rejected with a key-class error
ExhaustionOf(id) ==
  \E call \in BagToSet(calls) : \E msg \in Messages :
    /\ call.fileId = id
    /\ IsKeyError(msg)
    /\ ResolveAs(call, msg)

(* C17: while a run is active the worker loops change the status of an item
   only along Pending -> Processing, Processing -> Completed, Processing ->
   Failed and Processing -> Pending (the only other change is the user's retry
   of a Failed item); Processing -> Pending happens only when the item's call
   fails with a credential-exhaustion error and always together with putting
   the item back in the queue; a Completed item never changes status during
   the run. *)
C17_StatusTransitions ==
  [][processingRef =>
       \A id \in FileIdsOf(files) :
         LET before == StatusOf(files, id)
             after == StatusOf(files', id)
         IN  before # after =>
               /\ before # Completed
               /\ <<before, after>> \in SchedulerMoves \/ (Retried(id) /\ OnRetry)
               /\ <<before, after>> = <<Processing, Pending>> =>
                    /\ ExhaustionOf(id)
                    /\ Count(queueRef, id) = 0
                    /\ Count(queueRef', id) = 1]_vars

\* beside a Completed item, an item whose call was rejected with a key-class
\* error is Pending again and back in the queue
C17_Witness ==
  /\ processingRef
  /\ lastLog = Log("Limited/Error. Cooling down 30s. File moved to end of queue.", "warning")
  /\ \E i, j \in 1..Len(files) :
       /\ files[i].status = Completed
       /\ files[j].status = Pending
       /\ Count(queueRef, files[j].id) = 1
       /\ InFlight(calls, files[j].id) = 0

(* ---- runs with up to MaxCount keys ---- *)

KeyNames ==
  <<"k1", "k2", "k3", "k4", "k5", "k6", "k7", "k8",
    "k9", "k10", "k11", "k12", "k13", "k14", "k15", "k16">>

\* some items are uploaded and 1 to MaxCount keys entered
InitSizing ==
  /\ \E m \in 1..(MaxFiles + 1) : files = [i \in 1..m |-> NewFile(i)] /\ nextId = m + 1
  /\ \E n \in 1..MaxCount : apiKeys = [i \in 1..n |-> KeyNames[i]]
  /\ isProcessing = FALSE
  /\ processingRef = FALSE
  /\ activeWorkersRef = 0
  /\ queueRef = <<>>
  /\ activeKeysRef = {}
  /\ cooldownKeysRef = <<>>
  /\ nextKeyIdxRef = 0
  /\ timers = <<>>
  /\ calls = EmptyBag
  /\ lastLog = Log("User inputs API Keys.", "info")
  /\ seeded = {}
  /\ exhaustedUntil = <<>>
  /\ spawned = 0
  /\ firstCalls = <<>>
  /\ deadKeysRef = {}
  /\ failuresLeft = 0

NextSizing == StartProcessing \/ Resolve \/ TimerFire \/ Tick

SpecSizing == InitSizing /\ [][NextSizing]_vars

Min(a, b) == IF a < b THEN a ELSE b
Max(a, b) == IF a > b THEN a ELSE b

(* C18: for every number n >= 1 of keys, the startProcessing that starts a
   run spawns exactly min(20, max(2, 2 * n)) workers, however many items are
   in the queue. *)
C18_WorkerCount ==
  [][RunStarts => spawned' = Min(20, Max(2, 2 * Len(apiKeys)))]_vars

\* a run started with more than ten keys has spawned twenty workers
C18_Witness ==
  /\ processingRef
  /\ Len(apiKeys) > 10
  /\ spawned = 20
  /\ calls # EmptyBag

(* ---- runs that are cancelled ---- *)

\* handleClearAll() called at any moment, a run in progress included: the
\* cancellation that the flag check at the top of spawnWorker answers
HandleClearAllCall ==
  /\ Len(files) # 0
  /\ files' = <<>>
  /\ isProcessing' = FALSE
  /\ processingRef' = FALSE
  /\ lastLog' = Log("Cleared all files.", "warning")
  /\ UNCHANGED <<apiKeys, activeWorkersRef, queueRef, activeKeysRef, cooldownKeysRef,
                 nextKeyIdxRef, timers, calls, nextId,
                 seeded, exhaustedUntil, spawned, firstCalls, deadKeysRef, failuresLeft>>

\* some keys are entered, no file is uploaded yet
InitCancel ==
  /\ files = <<>>
  /\ \E q \in KeyLists \ {<<>>} : apiKeys = [i \in 1..Len(q) |-> KeyOf(q[i])]
  /\ isProcessing = FALSE
  /\ processingRef = FALSE
  /\ activeWorkersRef = 0
  /\ queueRef = <<>>
  /\ activeKeysRef = {}
  /\ cooldownKeysRef = <<>>
  /\ nextKeyIdxRef = 0
  /\ timers = <<>>
  /\ calls = EmptyBag
  /\ lastLog = Log("User inputs API Keys.", "info")
  /\ nextId = 1
  /\ seeded = {}
  /\ exhaustedUntil = <<>>
  /\ spawned = 0
  /\ firstCalls = <<>>
  /\ deadKeysRef = {}
  /\ failuresLeft = NoLimit

NextCancel ==
  \/ ProcessFiles
  \/ StartProcessing
  \/ Resolve
  \/ TimerFire
  \/ Tick
  \/ HandleClearAllCall

SpecCancel == InitCancel /\ [][NextCancel]_vars

\* the timer that fires in this step wakes a throttled worker loop
WorkerWakes ==
  /\ timers # <<>>
  /\ Head(timers).kind = "spawnWorker"
  /\ TimerFire

\* nothing has been popped from the queue q on the way to the queue p
NothingPopped(q, p) == Len(p) >= Len(q) /\ SubSeq(p, 1, Len(q)) = q

(* C19: once the run flag is false (set by clear-all or by the completion
   callback) no worker loop pops an id from the queue and no generation call
   is started: every loop returns at the top of its next iteration, and a loop
   woken by its throttle timer returns without touching anything. *)
C19_StoppedRunDoesNoWork ==
  [][/\ (~processingRef /\ ~processingRef') =>
          /\ NewCalls = {}
          /\ NothingPopped(queueRef, queueRef')
          /\ activeWorkersRef' <= activeWorkersRef
          /\ FreshThrottles(timers') <= FreshThrottles(timers)
     /\ (~processingRef /\ WorkerWakes) =>
          /\ timers' = Tail(timers)
          /\ UNCHANGED <<files, isProcessing, processingRef, activeWorkersRef, queueRef,
                         activeKeysRef, cooldownKeysRef, nextKeyIdxRef, calls, lastLog>>]_vars

\* after clear-all a throttled worker loop is due to wake while an id is in the queue
C19_Witness ==
  /\ ~processingRef
  /\ lastLog = Log("Cleared all files.", "warning")
  /\ queueRef # <<>>
  /\ timers # <<>>
  /\ Head(timers).kind = "spawnWorker"
  /\ Head(timers).due <= Now

\* a generation call settles in this step
CallSettles == BagCardinality(calls') < BagCardinality(calls)

(* C20: when the run flag is already false at the moment a generation call in
   flight settles, the handling of the result does not modify the work queue
   and starts no other generation call, whatever the outcome (success,
   credential-exhaustion error or permanent error). *)
C20_ResultIgnoredForScheduling ==
  [][(~processingRef /\ CallSettles) => (queueRef' = queueRef /\ NewCalls = {})]_vars

(* ---- runs started while a worker loop of the former run is still alive ---- *)

MaxLate == 1

\* the user clicks Generate Metadata while up to MaxLate worker loops of
\* former runs still wait on their throttle timers
StartProcessingEarly ==
  /\ CanGenerate
  /\ LiveLoops <= MaxLate
  /\ Commit(StartProcessingBody(Cur, apiKeys))
  /\ UNCHANGED <<apiKeys, nextId, failuresLeft>>

\* processFiles: an accepted upload, up to ScenarioItems files in all
ProcessFilesMore ==
  /\ ~isProcessing
  /\ nextId <= ScenarioItems
  /\ files' = Append(files, NewFile(nextId))
  /\ nextId' = nextId + 1
  /\ lastLog' = Log("Uploaded files. Filtering...", "info")
  /\ UNCHANGED <<apiKeys, isProcessing, processingRef, activeWorkersRef, queueRef,
                 activeKeysRef, cooldownKeysRef, nextKeyIdxRef, timers, calls,
                 seeded, exhaustedUntil, spawned, firstCalls, deadKeysRef, failuresLeft>>

NextEarly ==
  \/ ProcessFilesMore
  \/ StartProcessingEarly
  \/ Resolve
  \/ TimerFire
  \/ Tick

\* one key is entered, no file is uploaded yet; the API has at most
\* MaxFailures key-class rejections in store
InitEarly ==
  /\ files = <<>>
  /\ apiKeys = <<KeyOf(1)>>
  /\ isProcessing = FALSE
  /\ processingRef = FALSE
  /\ activeWorkersRef = 0
  /\ queueRef = <<>>
  /\ activeKeysRef = {}
  /\ cooldownKeysRef = <<>>
  /\ nextKeyIdxRef = 0
  /\ timers = <<>>
  /\ calls = EmptyBag
  /\ lastLog = Log("User inputs API Keys.", "info")
  /\ nextId = 1
  /\ seeded = {}
  /\ exhaustedUntil = <<>>
  /\ spawned = 0
  /\ firstCalls = <<>>
  /\ deadKeysRef = {}
  /\ failuresLeft = MaxFailures

SpecEarly == InitEarly /\ [][NextEarly]_vars

(* ---- runs started early, with the key panel in use between the runs ---- *)

MaxPending == 2

\* the user clicks Generate Metadata while up to MaxPending timers of former
\* runs (throttle waits, completion rechecks) are still pending
StartProcessingLate ==
  /\ CanGenerate
  /\ Len(timers) <= MaxPending
  /\ Commit(StartProcessingBody(Cur, apiKeys))
  /\ UNCHANGED <<apiKeys, nextId, failuresLeft>>

\* time passes only when no timer is due: every due callback runs first
TickPrompt ==
  /\ \A i \in 1..Len(timers) : timers[i].due > Now
  /\ Tick

NextRekey ==
  \/ HandleSetApiKeys
  \/ ProcessFiles
  \/ StartProcessingLate
  \/ Resolve
  \/ TimerFire
  \/ TickPrompt

\* one key is entered, no file is uploaded yet; the API has at most
\* MaxFailures + 1 key-class rejections in store
InitRekey ==
  /\ files = <<>>
  /\ apiKeys = <<KeyOf(1)>>
  /\ isProcessing = FALSE
  /\ processingRef = FALSE
  /\ activeWorkersRef = 0
  /\ queueRef = <<>>
  /\ activeKeysRef = {}
  /\ cooldownKeysRef = <<>>
  /\ nextKeyIdxRef = 0
  /\ timers = <<>>
  /\ calls = EmptyBag
  /\ lastLog = Log("User inputs API Keys.", "info")
  /\ nextId = 1
  /\ seeded = {}
  /\ exhaustedUntil = <<>>
  /\ spawned = 0
  /\ firstCalls = <<>>
  /\ deadKeysRef = {}
  /\ failuresLeft = MaxFailures + 1

SpecRekey == InitRekey /\ [][NextRekey]_vars

\* the error recorded on the item id
ErrorOf(fs, id) == (CHOOSE f \in {fs[i] : i \in 1..Len(fs)} : f.id = id).error

\* how the worker loop of a settled call has gone on: with another call, with
\* a throttle wait, or by returning on the empty queue (after checkCompletion)
WorkerWentOn ==
  \/ Cardinality(NewCalls) = 1 /\ timers' = timers
  \/ /\ NewCalls = {}
     /\ Len(timers') = Len(timers) + 1
     /\ timers'[Len(timers')].kind = "spawnWorker"
     /\ timers'[Len(timers')].due = Now + THROTTLE_MS
     /\ queueRef' # <<>>
  \/ /\ NewCalls = {}
     /\ queueRef' = <<>>
     /\ IF activeWorkersRef' = 0
        THEN /\ Len(timers') = Len(timers) + 1
             /\ timers'[Len(timers')].kind = "checkCompletion"
        ELSE timers' = timers

(* C21: every rejection of the generation call, whatever its error, is caught
   in the worker loop: for a key-class error the item is Pending and back in
   the queue (or taken up again at once), for any other error it is Failed
   with the error recorded; the counter of active workers has gone down by
   exactly one for the settled call, and the loop has gone on to its next
   iteration.  An id popped by a loop that does not find the item in its
   files is handled the same way: the item is Failed, the counter is even
   again, and the loop goes on. *)
C21_RejectionsCaughtInWorker ==
  [][/\ \A call \in BagToSet(calls) : \A msg \in Messages :
          ResolveAs(call, msg) =>
            /\ IF IsKeyError(msg)
               THEN \/ /\ StatusOf(files', call.fileId) = Pending
                       /\ Count(queueRef', call.fileId) = 1
                       /\ InFlight(calls', call.fileId) = 0
                    \/ /\ StatusOf(files', call.fileId) = Processing
                       /\ Count(queueRef', call.fileId) = 0
                       /\ InFlight(calls', call.fileId) = 1
               ELSE /\ StatusOf(files', call.fileId) = Failed
                    /\ ErrorOf(files', call.fileId) = ErrorString(msg)
                    /\ Count(queueRef', call.fileId) = 0
                    /\ InFlight(calls', call.fileId) = 0
            /\ activeWorkersRef' = activeWorkersRef - 1 + Cardinality(NewCalls)
            /\ BagCardinality(calls') = BagCardinality(calls) - 1 + Cardinality(NewCalls)
            /\ processingRef => WorkerWentOn
     /\ \A id \in FileIdsOf(files) :
          (ErrorOf(files, id) # ErrorString(NotFoundMessage)
             /\ ErrorOf(files', id) = ErrorString(NotFoundMessage)) =>
            /\ Count(queueRef, id) = 1
            /\ StatusOf(files', id) = Failed
            /\ Count(queueRef', id) = 0
            /\ InFlight(calls', id) = 0
            /\ activeWorkersRef' = BagCardinality(calls')
            /\ activeKeysRef' = {c.key : c \in BagToSet(calls')}]_vars

\* a loop popped an id it did not find in its files: the item is Failed with
\* that error, and the loop has gone on to a call for the next item
C21_Witness ==
  /\ processingRef
  /\ lastLog = Log("[Failed]", "error")
  /\ \E i \in 1..Len(files) :
       /\ files[i].status = Failed
       /\ files[i].error = ErrorString(NotFoundMessage)
  /\ calls # EmptyBag
  /\ activeWorkersRef = BagCardinality(calls)

\* the credential list is replaced in this step
KeyListReplaced == apiKeys' # apiKeys \/ HandleSetApiKeys

(* C22: whenever the credential list is replaced, every cooldown entry is
   removed and the rotation pointer becomes 0, while the queue, the set of
   busy keys and the items with their statuses stay as they are. *)
C22_ReplacementResetsKeys ==
  [][KeyListReplaced =>
       /\ cooldownKeysRef' = <<>>
       /\ nextKeyIdxRef' = 0
       /\ UNCHANGED <<queueRef, activeKeysRef, files>>]_vars

\* the credential list has just been replaced while a key was cooling down:
\* the 30 s of its failure are not over, yet no cooldown entry is left
C22_Witness ==
  /\ lastLog = Log("User inputs API Keys.", "info")
  /\ cooldownKeysRef = <<>>
  /\ nextKeyIdxRef = 0
  /\ \E k \in DOMAIN exhaustedUntil : exhaustedUntil[k] > Now
  /\ \E i \in 1..Len(files) : files[i].status \in {Completed, Failed}

\* position j (1-based) of keys is the first one, in cyclic order from the
\* pointer p, whose key is neither in busy nor in cooling
FirstFree(keys, p, busy, cooling, j) ==
  \E d \in 0..(Len(keys) - 1) :
    /\ j = ((p + d) % Len(keys)) + 1
    /\ keys[j] \notin busy \cup cooling
    /\ \A e \in 0..(d - 1) : keys[((p + e) % Len(keys)) + 1] \in busy \cup cooling

\* the one selection of this step, made for the id at the front of the queue q
\* with the keys, pointer, busy set and cooling set given: the first free key is
\* taken and the pointer moves just past it, or no key is free and none is taken
SelectsFrom(q, keys, p, busy, cooling) ==
  IF \A i \in 1..Len(keys) : keys[i] \in busy \cup cooling
  THEN /\ NewCalls = {}
       /\ nextKeyIdxRef' = p
       /\ queueRef' = q
  ELSE \E j \in 1..Len(keys) :
         /\ FirstFree(keys, p, busy, cooling, j)
         /\ NewCalls = {c \in BagToSet(calls') : c.fileId = Head(q) /\ c.key = keys[j]}
         /\ Cardinality(NewCalls) = 1
         /\ nextKeyIdxRef' = j % Len(keys)
         /\ queueRef' = Tail(q)

(* C23: credential selection returns the first key, in the cyclic order of the
   list starting at the rotation pointer and within one cycle, that is neither
   busy nor cooling down, and moves the pointer just past it; it returns none
   exactly when every key is busy or cooling down.  Checked for the selection
   of a worker woken by its throttle timer and for the selection that follows
   a settled call. *)
C23_FirstFreeKeyInCyclicOrder ==
  [][/\ (processingRef /\ WorkerWakes /\ queueRef # <<>>) =>
          SelectsFrom(queueRef, Head(timers).c.keys, nextKeyIdxRef, activeKeysRef,
                      Cooling(cooldownKeysRef))
     /\ \A call \in BagToSet(calls) : \A outcome \in {"ok"} \cup Messages :
          (processingRef /\ ResolveAs(call, outcome)) =>
            LET requeued == outcome # "ok" /\ IsKeyError(outcome)
                q == IF requeued THEN Append(queueRef, call.fileId) ELSE queueRef
                cooling == Cooling(cooldownKeysRef) \cup (IF requeued THEN {call.key} ELSE {})
            IN  q # <<>> =>
                  SelectsFrom(q, call.c.keys, nextKeyIdxRef, activeKeysRef \ {call.key}, cooling)]_vars

\* with two different keys, the first one cooling down and idle, a call is in
\* flight with the second one and the pointer has wrapped round to 0
C23_Witness ==
  /\ processingRef
  /\ Len(apiKeys) = 2
  /\ apiKeys[1] # apiKeys[2]
  /\ apiKeys[1] \in Cooling(cooldownKeysRef)
  /\ apiKeys[1] \notin activeKeysRef
  /\ HeldBy(calls, apiKeys[2]) = 1
  /\ nextKeyIdxRef = 0

(* C24: while a run is active the rotation pointer satisfies
   0 <= pointer < number of keys of the current list; it changes only when a
   key is selected (to the position just past the selected one, modulo the
   number of keys of the selecting loop's list) or when the credential list is
   replaced (to 0); a scan that finds no eligible key leaves it as it is. *)
C24_RotationPointer ==
  /\ [](processingRef => (0 <= nextKeyIdxRef /\ nextKeyIdxRef < Len(apiKeys)))
  /\ [][/\ nextKeyIdxRef' # nextKeyIdxRef =>
             \/ KeyListReplaced /\ nextKeyIdxRef' = 0
             \/ \E c \in NewCalls : \E j \in 1..Len(c.c.keys) :
                  /\ c.c.keys[j] = c.key
                  /\ nextKeyIdxRef' = j % Len(c.c.keys)
        /\ FreshThrottles(timers') > FreshThrottles(timers) /\ NewCalls = {} =>
             nextKeyIdxRef' = nextKeyIdxRef]_vars

\* no key of the list keys is eligible: each one is busy or in a cooldown that
\* has not expired
NoKeyEligible(keys) ==
  \A i \in 1..Len(keys) :
     keys[i] \in activeKeysRef \/ keys[i] \in Cooling(cooldownKeysRef)

\* the cooldown entries of cd that have not expired
Unexpired(cd) == [k \in Cooling(cd) |-> cd[k]]

(* C25: when a worker loop wakes in a running run, pops an item and finds no
   key eligible, the step leaves the queue as it was before the pop (the id is
   back at the front), every item status (the item stays Pending, never
   Failed), the busy set, the unexpired cooldown entries, the rotation pointer
   and the in-flight counter unchanged, starts no call, and the loop waits
   THROTTLE_MS = 1 s for its next try. *)
C25_NoKeyLeavesAllAsItWas ==
  [][(processingRef /\ queueRef # <<>> /\ WorkerWakes /\ NoKeyEligible(Head(timers).c.keys)) =>
       /\ queueRef' = queueRef
       /\ files' = files
       /\ StatusOf(files', Head(queueRef')) # Failed
       /\ activeKeysRef' = activeKeysRef
       /\ Unexpired(cooldownKeysRef') = Unexpired(cooldownKeysRef)
       /\ nextKeyIdxRef' = nextKeyIdxRef
       /\ activeWorkersRef' = activeWorkersRef
       /\ calls' = calls
       /\ processingRef' /\ isProcessing' = isProcessing
       /\ Len(timers') = Len(timers)
       /\ \E i \in 1..Len(timers') :
            timers'[i] = [Head(timers) EXCEPT !.due = Now + THROTTLE_MS]]_vars

\* the only key has been cooling for a second, an item is queued and Pending,
\* and the worker loop that just woke waits in a new throttle
C25_Witness ==
  /\ processingRef
  /\ Len(apiKeys) = 1
  /\ calls = EmptyBag
  /\ apiKeys[1] \in DOMAIN cooldownKeysRef
  /\ cooldownKeysRef[apiKeys[1]] = Now + COOLDOWN_MS - THROTTLE_MS
  /\ queueRef # <<>>
  /\ StatusOf(files, Head(queueRef)) = Pending
  /\ FreshThrottles(timers) >= 1

\* the state right after the try/catch that handles the settled call, before
\* the counter is decremented and the loop goes on
AfterResult(s, call, outcome) ==
  LET s0 == [s EXCEPT !.calls = @ (-) SetToBag({call})]
  IN  IF outcome = "ok" THEN Success(s0, call.fileId, call.key)
      ELSE Catch(s0, call.fileId, call.key, outcome)

(* C26: after a generation call has finished, with a success, a key-class
   (exhaustion) error or a permanent error, its key is no longer in the busy
   set, and the key has a cooldown entry if and only if the outcome was a
   key-class error. This holds right after the result is handled, and at the
   end of the step too, where the key is busy again only if the loop has
   taken it for its next call. *)
C26_KeyReleasedAndCooled ==
  /\ [](\A call \in BagToSet(calls) : \A outcome \in {"ok"} \cup Messages :
          LET s == AfterResult(Cur, call, outcome)
          IN  /\ call.key \notin s.activeKeysRef
              /\ call.key \in DOMAIN s.cooldownKeysRef <=> KeyClass(outcome))
  /\ [][\A call \in BagToSet(calls) : \A outcome \in {"ok"} \cup Messages :
          ResolveAs(call, outcome) =>
            /\ call.key \in activeKeysRef' => \E c \in NewCalls : c.key = call.key
            /\ call.key \in DOMAIN cooldownKeysRef' <=> KeyClass(outcome)
            /\ KeyClass(outcome) =>
                 /\ call.key \notin activeKeysRef'
                 /\ cooldownKeysRef'[call.key] = Now + COOLDOWN_MS]_vars

\* a call has just been rejected with a key-class error: its key is free and
\* starts its cooldown, while another key is still busy with a call
C26_Witness ==
  /\ lastLog = Log("Limited/Error. Cooling down 30s. File moved to end of queue.", "warning")
  /\ calls # EmptyBag
  /\ \E k \in DOMAIN cooldownKeysRef :
       /\ cooldownKeysRef[k] = Now + COOLDOWN_MS
       /\ k \notin activeKeysRef
       /\ HeldBy(calls, k) = 0

\* the item id carries generated metadata and thumbnail
GeneratedOf(fs, id) == (CHOOSE f \in {fs[i] : i \in 1..Len(fs)} : f.id = id).generated

(* C27: when a generation call succeeds, the item becomes Completed with the
   generated metadata and thumbnail attached and is not put back in the queue;
   the same worker loop starts its next iteration in the same step, with no
   delay: if an id is queued it pops the first one and starts the call for it
   (the key just released is free) and no timer is armed, ids that the loop
   does not find in its files being failed and passed over on the way; if the
   queue is or becomes empty the loop returns through checkCompletion. *)
C27_SuccessCompletesAndGoesOn ==
  [][\A call \in BagToSet(calls) :
       ResolveAs(call, "ok") =>
         /\ StatusOf(files', call.fileId) = Completed
         /\ GeneratedOf(files', call.fileId)
         /\ Count(queueRef', call.fileId) = 0
         /\ InFlight(calls', call.fileId) = 0
         /\ activeWorkersRef' = activeWorkersRef - 1 + Cardinality(NewCalls)
         /\ processingRef =>
              LET popped == Len(queueRef) - Len(queueRef')
              IN  /\ IsSuffix(queueRef', queueRef)
                  /\ queueRef # <<>> => popped >= 1
                  /\ \/ /\ Cardinality(NewCalls) = 1
                        /\ \E c \in NewCalls : c.fileId = queueRef[popped] /\ c.c = call.c
                        /\ timers' = timers
                        /\ \A i \in 1..(popped - 1) :
                             ErrorOf(files', queueRef[i]) = ErrorString(NotFoundMessage)
                     \/ /\ NewCalls = {}
                        /\ queueRef' = <<>>
                        /\ WorkerWentOn
                        /\ \A i \in 1..popped :
                             ErrorOf(files', queueRef[i]) = ErrorString(NotFoundMessage)]_vars

\* with one key, a call has just succeeded and the same loop already has the
\* call for the next item in flight
C27_Witness ==
  /\ processingRef
  /\ Len(apiKeys) = 1
  /\ lastLog = Log("[Success]", "success")
  /\ \E i \in 1..Len(files) : files[i].status = Completed /\ files[i].generated
  /\ BagCardinality(calls) = 1
  /\ queueRef = <<>>

\* the distinct key strings of the current list
DistinctKeys == {apiKeys[i] : i \in 1..Len(apiKeys)}

(* C28: in every state between two scheduler steps activeWorkersRef equals
   the number of worker loops with a generation call outstanding and equals
   the size of the busy-key set; it is never negative and never exceeds the
   number of distinct keys of the list. *)
C28_CounterMatchesCallsAndBusyKeys ==
  /\ activeWorkersRef = BagCardinality(calls)
  /\ activeWorkersRef = Cardinality(activeKeysRef)
  /\ activeWorkersRef >= 0
  /\ activeWorkersRef <= Cardinality(DistinctKeys)

(* C29: while the run flag is true and the queue is not empty, at least one
   worker loop is alive: it has a generation call in flight, or it waits on a
   timer (its staggered start or its throttle) and will go on when it fires. *)
C29_QueuedWorkHasALoop ==
  (processingRef /\ queueRef # <<>>) => LiveLoops >= 1

\* one loop is left: it waits in its throttle, with an item queued and no call
\* in flight
C29_Witness ==
  /\ processingRef
  /\ queueRef # <<>>
  /\ calls = EmptyBag
  /\ LiveLoops = 1
  /\ FreshThrottles(timers) = 1

(* C30: each run reports its completion at most once: between two starts of
   a run the callback of checkCompletion flips the flag and logs 'All workers
   finished.' no more than once, even when several worker loops saw the empty
   queue with no worker in flight.  A start sets the flag and only a report
   (or clear-all, which needs the flag false) unsets it, so a second report
   of a run is a callback that finds the queue empty and no worker active
   while the flag is already false. *)
C30_CompletionReportedOncePerRun ==
  [][(CompletionFires /\ Idle) => processingRef]_vars

(* C31: at any time of a run the number of live worker loops (a call in
   flight, or waiting on a timer for the next try) is at most the number of
   workers that the most recent startProcessing has spawned, also when the
   run was started right after the run before reported finished. *)
C31_LiveLoopsWithinWorkerCount ==
  processingRef => LiveLoops <= spawned

(* C32: the items of a run get their first generation call in seeding
   (display) order: for seeded items a before b, the first call for b is never
   started before the first call for a.  The ids grow in display order, so
   the record of first calls lists, at every moment, the smallest seeded ids
   in increasing order. *)
C32_FirstCallsInSeedingOrder ==
  \A j \in 1..Len(firstCalls) : \A a \in seeded :
     a < firstCalls[j] => \E i \in 1..(j - 1) : firstCalls[i] = a

\* three items were seeded, the second one was put back by a worker that
\* found no key, and all three have had their first call in display order
C32_Witness ==
  /\ processingRef
  /\ Cardinality(seeded) = 3
  /\ Len(firstCalls) = 3
  /\ lastLog = Log("[Success]", "success")

(* C33: startProcessing leaves the cooldown map and the rotation pointer as
   the run before left them: every cooldown entry that has not expired is kept
   with its deadline, no worker it spawns takes a key that is still cooling
   down, and the first selection of the new run scans from the pointer of the
   old one (with every key cooling down no call is started and the pointer
   stays). *)
C33_StartKeepsCooldownsAndPointer ==
  [][RunStarts =>
       /\ Unexpired(cooldownKeysRef') = Unexpired(cooldownKeysRef)
       /\ \A c \in NewCalls : c.key \notin Cooling(cooldownKeysRef)
       /\ IF \A i \in 1..Len(apiKeys) : apiKeys[i] \in Cooling(cooldownKeysRef)
          THEN NewCalls = {} /\ nextKeyIdxRef' = nextKeyIdxRef
          ELSE \E j \in 1..Len(apiKeys) :
                 /\ FirstFree(apiKeys, nextKeyIdxRef, {}, Cooling(cooldownKeysRef), j)
                 /\ \E c \in NewCalls :
                      c.fileId = Head(TargetIds(files)) /\ c.key = apiKeys[j]]_vars

\* a run has just been started while the first key is still in the cooldown
\* it got in the run before: the key is idle and a call is in flight with the
\* other key
C33_Witness ==
  /\ processingRef
  /\ lastLog = Log("Spawning workers (Round Robin Strategy)...", "info")
  /\ Len(apiKeys) = 2
  /\ apiKeys[1] \in Cooling(cooldownKeysRef)
  /\ cooldownKeysRef[apiKeys[1]] < Now + COOLDOWN_MS
  /\ HeldBy(calls, apiKeys[1]) = 0
  /\ HeldBy(calls, apiKeys[2]) = 1

(* ---- startProcessing called with nothing to process ---- *)

\* startProcessing() called through the Generate button, or called at any
\* moment while no item is Pending or Failed
StartProcessingCall ==
  /\ \/ TargetIds(files) = <<>>
     \/ CanGenerate /\ LiveLoops <= MaxStale
  /\ Commit(StartProcessingBody(Cur, apiKeys))
  /\ UNCHANGED <<apiKeys, nextId, failuresLeft>>

NextStart == StartProcessingCall \/ Resolve \/ TimerFire \/ Tick

SpecStart == InitRun /\ [][NextStart]_vars

(* C34: startProcessing called with at least one key while no item is Pending
   or Failed changes nothing: the processing flag, the run flag, the queue,
   the busy set, the in-flight counter, the items, the timers and the calls in
   flight are as before, no worker is spawned and nothing is logged. *)
C34_NoTargetNoStart ==
  [][(Len(apiKeys) > 0 /\ TargetIds(files) = <<>> /\ StartProcessingCall) =>
       /\ UNCHANGED <<files, isProcessing, processingRef, activeWorkersRef, queueRef,
                      activeKeysRef, cooldownKeysRef, nextKeyIdxRef, timers, calls,
                      lastLog, seeded, spawned>>
       /\ NewCalls = {}]_vars

\* a run is in progress with every item Processing or Completed: a call of
\* startProcessing finds no target
C34_Witness ==
  /\ Len(apiKeys) > 0
  /\ Len(files) > 0
  /\ TargetIds(files) = <<>>
  /\ processingRef
  /\ calls # EmptyBag
  /\ ENABLED StartProcessingCall

(* ---- the scheduler of src/App.tsx: a key that fails is marked dead ---- *)

\* const workerCount = Math.min(queueRef.current.length, 10)
MAX_CONCURRENCY == 10

\* setTimeout(..., 500) of checkCompletion
APP_GRACE_MS == 500

Range(q) == {q[i] : i \in 1..Len(q)}

\* that filter looking at the busy keys only
AvailableKeysIgnoringDead(s, keys) ==
  SelectSeq(keys, LAMBDA k : k \notin s.activeKeysRef)

\* apiKeys.filter(k => !deadKeysRef.current.has(k) && !activeKeysRef.current.has(k))
AvailableKeys(s, keys) ==
  SelectSeq(keys, LAMBDA k : k \notin s.deadKeysRef /\ k \notin s.activeKeysRef)

\* apiKeys.filter(k => !deadKeysRef.current.has(k))
ValidKeys(s, keys) == SelectSeq(keys, LAMBDA k : k \notin s.deadKeysRef)

\* the keys currentKey can be: availableKeys[0], or with no free key
\* validKeys[Math.floor(Math.random() * validKeys.length)], any valid key
CurrentKeys(s, keys) ==
  IF AvailableKeys(s, keys) # <<>> THEN {AvailableKeys(s, keys)[1]}
  ELSE Range(ValidKeys(s, keys))

\* checkCompletion() of src/App.tsx
AppCheckCompletion(s) ==
  IF s.activeWorkersRef = 0
  THEN [s EXCEPT !.timers = SetTimeout(@, [kind |-> "checkCompletion", c |-> NoClosure, due |-> Now], APP_GRACE_MS)]
  ELSE s

\* the callback of its timer
AppCompletionCallback(s) ==
  IF s.queueRef = <<>> /\ s.activeWorkersRef = 0
  THEN [s EXCEPT !.isProcessing = FALSE, !.processingRef = FALSE,
                 !.lastLog = Log("All workers finished.", "success"),
                 !.seeded = {},
                 !.spawned = 0, !.firstCalls = <<>>]
  ELSE s

\* spawnWorker finding every key dead: the popped item fails and the run stops
AllKeysDead(s, fileId) ==
  [s EXCEPT !.lastLog = Log("CRITICAL: All API Keys are marked as failed (Dead). Stopping.", "error"),
            !.files = SetFailed(@, fileId, "No valid keys left"),
            !.activeWorkersRef = @ - 1,
            !.processingRef = FALSE,
            !.isProcessing = FALSE]

\* the try block after the await resolved
AppSuccess(s, fileId, key) ==
  [s EXCEPT !.files = SetCompleted(@, fileId),
            !.lastLog = Log("[Success]", "success"),
            !.activeKeysRef = @ \ {key}]

\* the key-error branch of the catch block: the key is marked dead, the item
\* goes back to the front of the queue
AppCatchKeyError(s, fileId, key) ==
  [s EXCEPT !.lastLog = Log("Marking key DEAD. Swapping...", "warning"),
            !.deadKeysRef = @ \cup {key},
            !.queueRef = <<fileId>> \o @,
            !.files = SetStatus(@, fileId, Pending)]

\* the other branch of the catch block
AppCatchOtherError(s, fileId, msg) ==
  [s EXCEPT !.files = SetFailed(@, fileId, ErrorString(msg)),
            !.lastLog = Log("[Failed]", "error")]

\* catch (error): release the key, then classify String(error).toLowerCase()
AppCatch(s, fileId, key, msg) ==
  LET s1 == [s EXCEPT !.activeKeysRef = @ \ {key}]
  IN  IF IsKeyError(msg) THEN AppCatchKeyError(s1, fileId, key)
      ELSE AppCatchOtherError(s1, fileId, msg)

\* spawnWorker(workerId) of src/App.tsx up to its await or its return; the
\* set of the states it can leave, one for each key Math.random can pick
RECURSIVE AppSpawnWorker(_, _)
AppSpawnWorker(s, c) ==
  IF ~s.processingRef THEN {s}
  ELSE IF s.queueRef = <<>> THEN {AppCheckCompletion(s)}
  ELSE
    LET fileId == Head(s.queueRef)
        s1 == [s EXCEPT !.queueRef = Tail(@), !.activeWorkersRef = @ + 1]
    IN  IF CurrentKeys(s1, c.keys) = {} THEN {AllKeysDead(s1, fileId)}
        ELSE UNION {
          LET s2 == [s1 EXCEPT !.activeKeysRef = @ \cup {currentKey},
                               !.files = SetStatus(@, fileId, Processing)]
          IN  IF fileId \notin c.known
              THEN \* throw new Error("File not found in state"), caught at once
                   LET s3 == AppCatch(s2, fileId, currentKey, NotFoundMessage)
                   IN  AppSpawnWorker([s3 EXCEPT !.activeWorkersRef = @ - 1], c)
              ELSE \* await generateMetadataForFile(fileItem, settings, currentKey)
                   {[s2 EXCEPT !.calls = @ (+) SetToBag({Call(fileId, currentKey, c)}),
                               !.firstCalls = FirstCall(@, fileId)]}
          : currentKey \in CurrentKeys(s1, c.keys)}

\* the continuation of that spawnWorker after the generation call settled
AppSettle(s, call, outcome) ==
  LET s0 == [s EXCEPT !.calls = @ (-) SetToBag({call})]
      s1 == IF outcome = "ok" THEN AppSuccess(s0, call.fileId, call.key)
            ELSE AppCatch(s0, call.fileId, call.key, outcome)
  IN  AppSpawnWorker([s1 EXCEPT !.activeWorkersRef = @ - 1], call.c)

\* Math.min(queueRef.current.length, 10)
WorkerCount(n) == IF n < MAX_CONCURRENCY THEN n ELSE MAX_CONCURRENCY

\* for (let i = 0; i < workerCount; i++) spawnWorker(i + 1)
RECURSIVE AppSpawnAll(_, _, _)
AppSpawnAll(S, c, n) ==
  IF n = 0 THEN S
  ELSE AppSpawnAll(UNION {AppSpawnWorker([s EXCEPT !.spawned = @ + 1], c) : s \in S}, c, n - 1)

\* startProcessing() of src/App.tsx
AppStartProcessingBody(s, keys) ==
  IF Len(keys) = 0
  THEN {[s EXCEPT !.lastLog = Log("Failed to start: No API Key provided.", "error")]}
  ELSE IF TargetIds(s.files) = <<>> THEN {s}
  ELSE
    LET s1 == [s EXCEPT !.files = ResetFailed(@),
                        !.isProcessing = TRUE,
                        !.processingRef = TRUE,
                        !.activeWorkersRef = 0,
                        !.queueRef = TargetIds(s.files),
                        !.seeded = {TargetIds(s.files)[i] : i \in 1..Len(TargetIds(s.files))},
                        !.activeKeysRef = {},
                        !.spawned = 0,
                        !.firstCalls = <<>>,
                        !.lastLog = Log("Spawning workers...", "info")]
    IN  AppSpawnAll({s1}, Closure(keys, s.files), WorkerCount(Len(TargetIds(s.files))))

\* the user clicks Generate Metadata (rendered while not processing, enabled
\* by canGenerate); the model follows a new run while at most MaxPending
\* grace timers of earlier runs are waiting
AppStartProcessing ==
  /\ CanGenerate
  /\ Len(timers) <= MaxPending
  /\ \E s \in AppStartProcessingBody(Cur, apiKeys) : Commit(s)
  /\ UNCHANGED <<apiKeys, nextId, failuresLeft>>

\* the generation call `call` settles as `outcome`
AppResolveAs(call, outcome) ==
  /\ call \in BagToSet(calls)
  /\ Allowed(failuresLeft, outcome)
  /\ \E s \in AppSettle(Cur, call, outcome) : Commit(s)
  /\ failuresLeft' = Spend(failuresLeft, outcome)
  /\ UNCHANGED <<apiKeys, nextId>>

AppResolve ==
  \E call \in BagToSet(calls) : \E outcome \in {"ok"} \cup Messages : AppResolveAs(call, outcome)

\* the grace timer is due and runs its callback
AppTimerFire ==
  /\ timers # <<>>
  /\ Head(timers).due <= Now
  /\ Commit(AppCompletionCallback([Cur EXCEPT !.timers = Tail(@)]))
  /\ UNCHANGED <<apiKeys, nextId, failuresLeft>>

\* time passes up to the next timer
AppTick ==
  /\ timers # <<>>
  /\ Head(timers).due > Now
  /\ timers' = [i \in 1..Len(timers) |-> [timers[i] EXCEPT !.due = ShiftDue(@, Head(timers).due - Now)]]
  /\ UNCHANGED <<files, apiKeys, isProcessing, processingRef, activeWorkersRef, queueRef,
                 activeKeysRef, cooldownKeysRef, nextKeyIdxRef, calls, lastLog, nextId,
                 seeded, exhaustedUntil, spawned, firstCalls, deadKeysRef, failuresLeft>>

\* handleSetApiKeys(keys) of src/App.tsx (the textarea is disabled while
\* processing), and the effect on [apiKeys]: deadKeysRef.current.clear()
AppHandleSetApiKeysTo(q) ==
  /\ ~isProcessing
  /\ LET keys == [i \in 1..Len(q) |-> KeyOf(q[i])]
     IN
       /\ apiKeys' = keys
       /\ lastLog' = IF Len(keys) > 0 THEN Log("User inputs API Keys.", "info") ELSE lastLog
  /\ deadKeysRef' = {}
  /\ UNCHANGED <<files, isProcessing, processingRef, activeWorkersRef, queueRef,
                 activeKeysRef, cooldownKeysRef, nextKeyIdxRef, timers, calls, nextId,
                 seeded, exhaustedUntil, spawned, firstCalls, failuresLeft>>

AppHandleSetApiKeys == \E q \in KeyLists : AppHandleSetApiKeysTo(q)

\* processFiles, handleClearAll, handleDelete and onRetry are the same in both
\* files
NextApp ==
  \/ AppStartProcessing
  \/ AppResolve
  \/ AppTimerFire
  \/ AppTick
  \/ AppHandleSetApiKeys
  \/ ProcessFiles
  \/ HandleClearAll
  \/ HandleDelete
  \/ OnRetry

SpecApp == Init /\ [][NextApp]_vars

(* ---- src/App.tsx with folders of files: one key, uploads of several files at
   a time, the API answering the calls in the order of the items and rejecting
   at most MaxFailures of them with a key-class error ---- *)

\* the files uploaded in all
MaxBatch == 11

\* the sizes of the uploads
BatchSizes == {2, MaxBatch - 2}

\* processFiles(fileList) with a list of n accepted files
ProcessFilesBatch ==
  /\ ~isProcessing
  /\ \E n \in BatchSizes :
       /\ nextId + n - 1 <= MaxBatch
       /\ files' = files \o [i \in 1..n |-> NewFile(nextId + i - 1)]
       /\ nextId' = nextId + n
  /\ lastLog' = Log("Uploaded files. Filtering...", "info")
  /\ UNCHANGED <<apiKeys, isProcessing, processingRef, activeWorkersRef, queueRef,
                 activeKeysRef, cooldownKeysRef, nextKeyIdxRef, timers, calls,
                 seeded, exhaustedUntil, spawned, firstCalls, deadKeysRef, failuresLeft>>

\* the user enters one key
AppEnterOneKey == AppHandleSetApiKeysTo(<<1>>)

\* the call in flight for the first item of those in flight settles: it
\* resolves or is rejected with the quota message
AppResolveInOrder ==
  \E call \in BagToSet(calls) :
    /\ \A c \in BagToSet(calls) : call.fileId <= c.fileId
    /\ \E outcome \in {"ok", QuotaMessage} : AppResolveAs(call, outcome)

InitBatch ==
  /\ files = <<>>
  /\ apiKeys = <<>>
  /\ isProcessing = FALSE
  /\ processingRef = FALSE
  /\ activeWorkersRef = 0
  /\ queueRef = <<>>
  /\ activeKeysRef = {}
  /\ cooldownKeysRef = <<>>
  /\ nextKeyIdxRef = 0
  /\ timers = <<>>
  /\ calls = EmptyBag
  /\ lastLog = NoLog
  /\ nextId = 1
  /\ seeded = {}
  /\ exhaustedUntil = <<>>
  /\ spawned = 0
  /\ firstCalls = <<>>
  /\ deadKeysRef = {}
  /\ failuresLeft = MaxFailures

NextBatch ==
  \/ AppStartProcessing
  \/ AppResolveInOrder
  \/ AppTimerFire
  \/ AppTick
  \/ AppEnterOneKey
  \/ ProcessFilesBatch

SpecBatch == InitBatch /\ [][NextBatch]_vars

(* ---- properties of the scheduler of src/App.tsx ---- *)

\* the credential list is replaced in this step, in src/App.tsx
AppKeyListReplaced == apiKeys' # apiKeys \/ AppHandleSetApiKeys

(* C35: in the scheduler of src/App.tsx, a key whose generation call is
   rejected with a key-class error (isKeyError is true of the message) is in
   the set of dead keys from then on; no generation call is ever started with
   a key that is in that set; and a key leaves the set only in the step that
   replaces the credential list. *)
C35_DeadKeyNeverChosen ==
  [][/\ \A call \in BagToSet(calls) : \A outcome \in Messages :
          (AppResolveAs(call, outcome) /\ IsKeyError(outcome)) => call.key \in deadKeysRef'
     /\ \A c \in NewCalls : c.key \notin deadKeysRef \cup deadKeysRef'
     /\ deadKeysRef \subseteq deadKeysRef' \/ AppKeyListReplaced]_vars

\* a worker whose call was rejected with a key-class error has marked its key
\* dead and has started the call for the same item again with the other key
C35_Witness ==
  /\ processingRef
  /\ deadKeysRef = {"k1"}
  /\ lastLog = Log("Marking key DEAD. Swapping...", "warning")
  /\ \E c \in BagToSet(calls) : c.key = "k2" /\ c.fileId = 1

\* the generation call `call` is rejected with a key-class error while the run
\* flag is set and that error leaves no key of the worker's list alive: the
\* worker puts the item (one the list still shows) back, pops it again and
\* finds every key dead
PopsWithEveryKeyDead(call, outcome) ==
  /\ AppResolveAs(call, outcome)
  /\ IsKeyError(outcome)
  /\ processingRef
  /\ Range(call.c.keys) \subseteq deadKeysRef \cup {call.key}
  /\ call.fileId \in FileIdsOf(files)

(* C36: in the scheduler of src/App.tsx, when a worker pops an item and every
   configured key is dead, that item becomes Failed with the error 'No valid
   keys left' and the run flag and the processing flag become false; from then
   on no item of the run has the status Processing, and while the run flag is
   false no worker pops an item or starts a generation call. *)
C36_AllDeadStopsTheRun ==
  [][/\ \A call \in BagToSet(calls) : \A outcome \in Messages :
          PopsWithEveryKeyDead(call, outcome) =>
            /\ StatusOf(files', call.fileId) = Failed
            /\ ErrorOf(files', call.fileId) = "No valid keys left"
            /\ ~processingRef'
            /\ ~isProcessing'
            /\ \A id \in seeded : StatusOf(files', id) # Processing
     /\ (~processingRef /\ (AppResolve \/ AppTimerFire)) =>
            /\ IsSuffix(queueRef, queueRef')
            /\ NewCalls = {}]_vars

(* C38: in the scheduler of src/App.tsx the set of busy keys is accurate: the
   key of every generation call in flight is in the set, and a step takes a
   key out of the set only if no call in flight uses that key afterwards. *)
C38_BusySetIsAccurate ==
  /\ [](\A c \in BagToSet(calls) : c.key \in activeKeysRef)
  /\ [][\A k \in activeKeysRef \ activeKeysRef' : HeldBy(calls', k) = 0]_vars

\* startProcessing runs past its two early returns
AppRunStarts == AppStartProcessing /\ Len(apiKeys) > 0 /\ TargetIds(files) # <<>>

(* C37: in the scheduler of src/App.tsx, startProcessing spawns as many
   workers as the smaller of the queue's length and 10, and at every moment,
   whatever runs, key-error restarts of workers, stops and restarts came
   before, at most 10 generation calls are in flight. *)
C37_AtMostTenCalls ==
  /\ [](BagCardinality(calls) <= MAX_CONCURRENCY)
  /\ [][AppRunStarts =>
          spawned' = (IF Len(TargetIds(files)) < 10 THEN Len(TargetIds(files)) ELSE 10)]_vars
====
